---- MODULE Spec2Model ----
(***************************************************************************)
(* Await graph, reactor and wait combinators of olifilo.                   *)
(*                                                                         *)
(* One execution context: `main` creates the root coroutine, drives it     *)
(* with future::get() and the reactor walks the graph of promise nodes.    *)
(* A promise node keeps its child promises in `callees` and the awaitable  *)
(* leaves suspended in its frame in `events`; the reactor's walk over a    *)
(* node visits the child promises and then the leaves (front to back in    *)
(* the collect and mark phases, back to front when dispatching).           *)
(*                                                                         *)
(* Coroutine handles are identified with their promise node.  A coroutine  *)
(* body is a sequence of positions (pc); `running` is the coroutine that   *)
(* currently executes and `stack` the chain of callers that get control    *)
(* back when it suspends.                                                  *)
(***************************************************************************)
EXTENDS Integers, Sequences, FiniteSets, TLC

\* ---------------------------------------------------------------- bounds
MaxTime == 3          \* the steady clock stops advancing here
MaxDeadline == 2      \* deadlines are drawn from 1..MaxDeadline
MaxPolls == 1         \* poll round trips a worker needs before it finishes

\* ------------------------------------------------------ program constants
FD_SETSIZE == 8       \* domain of the select() fd sets, scaled down
small_capacity == 2   \* inline slots of sbo_vector<T*>

Null == "null"        \* nullptr / empty coroutine handle
NOP == "nop"          \* &nop_always_ready_promise
NoTimeout == -1       \* std::nullopt for a time point
NoFd == -1            \* file_descriptor_handle() : _fd == -1

Workers == <<"w1", "w2", "w3">>
WorkerSet == {Workers[i] : i \in 1..Len(Workers)}
AllWorkers == WorkerSet \cup {"w4"}
WaitIds == {"wi", "wi2"}
Promises == {"root", "cmb", "wi", "wa", "wa2", "cmb2", "wi2"} \cup AllWorkers
Leaves == {"l0", "l1", "l2", "l3", "l4", "lt", "lt2"}
Kinds == {"await", "wait_all", "wait_first", "when_any"}

\* the wait(until, ...) coroutine and the wait_t::operator() it calls
Inner(c) == IF c = "cmb" THEN "wi" ELSE "wi2"
Wrapper(me) == IF me = "wi" THEN "cmb" ELSE "cmb2"

\* the leaf a coroutine keeps in its frame
LeafOf(p) == CASE p = "root" -> "l0" [] p = "w1" -> "l1" [] p = "w2" -> "l2"
               [] p = "w3" -> "l3" [] p = "w4" -> "l4" [] p = "wi" -> "lt"
               [] p = "wi2" -> "lt2" [] OTHER -> Null

\* the timer leaf in the frame of wait_t::operator()
TimerOf(me) == LeafOf(me)

\* requested readiness of each leaf's poll request
poll_events(l) == CASE l = "l0" -> {"read"} [] l = "l1" -> {"read"} [] l = "l2" -> {"write"}
                    [] l = "l3" -> {"read", "write"} [] l = "l4" -> {"read"}
                    [] OTHER -> {}

VARIABLES
  ndebug,          \* build: TRUE when assert() is compiled out
  reactor,         \* build: the revision of the collect phase that is compiled in
  wfd,             \* the descriptor worker w1 polls
  kind,            \* what the root coroutine awaits
  deadline,        \* timeout argument of the combinator, or NoTimeout
  polls,           \* per worker: poll round trips it needs
  wdeadline,       \* per worker: deadline of its poll requests
  cancel,          \* root drops its unfinished workers once the combinator returned
  now,             \* steady_clock
  alive,           \* promise -> coroutine frame exists
  pc,              \* promise -> position of the coroutine
  owner,           \* promise -> holder of its future handle
  caller,          \* promise -> promise awaiting it
  callees,         \* promise -> child promise pointers
  events,          \* promise -> awaitable leaf pointers
  waits_on_me,     \* promise -> coroutine to resume at final suspend
  returned_value,  \* promise -> result slot
  left,            \* worker -> poll round trips still to do
  lalive,          \* leaf -> leaf object exists
  wait_result,     \* leaf -> result slot
  waiter,          \* leaf -> coroutine to resume
  ltimeout,        \* leaf -> deadline of the poll request
  running,         \* who executes now: a coroutine or "main"
  stack,           \* who gets control when `running` suspends
  gpc,             \* position of main / future::get / the reactor pass
  get_result,      \* what get() returned
  rx,              \* locals of the reactor pass
  wx,              \* locals of wait / when_any
  io,              \* the byte streams and the transfers of the read / write programs
  sv,              \* one sbo_vector, the allocator's buffers and the sequence it stands for
  ex,              \* two expected<T> objects
  sd,              \* the buffers and the transfers of the send programs
  vp,              \* one variant_ptr and the pointer it was built from
  evq,             \* one event fd of the esp-idf event component
  fired,           \* assertions that did not hold
  aborted,         \* assert() ended the process
  hist             \* history values used by the properties

config == <<ndebug, reactor, wfd, kind, deadline, polls, wdeadline, cancel>>
vars == <<ndebug, reactor, wfd, kind, deadline, polls, wdeadline, cancel, now, alive, pc, owner, caller,
          callees, events, waits_on_me, returned_value, left, lalive, wait_result,
          waiter, ltimeout, running, stack, gpc, get_result, rx, wx, io, sv, ex, sd, vp, evq, fired, aborted,
          hist>>

\* descriptor of each leaf's poll request
fd(l) == CASE l = "l0" -> 5 [] l = "l1" -> wfd [] l = "l2" -> 4 [] l = "l3" -> 6
           [] l = "l4" -> 7 [] OTHER -> NoFd

\* the timeout argument a wait_t::operator() was called with
TimeoutOf(me) == IF me = "wi" THEN deadline ELSE NoTimeout

Min(a, b) == IF a <= b THEN a ELSE b
Max(a, b) == IF a >= b THEN a ELSE b

RECURSIVE SeqRemove(_, _)
SeqRemove(s, e) ==
  IF s = <<>> THEN <<>>
  ELSE IF Head(s) = e THEN SeqRemove(Tail(s), e)
  ELSE <<Head(s)>> \o SeqRemove(Tail(s), e)

\* expected<T>: a value or an error code
Ok(i) == [err |-> "none", idx |-> i]
Err(e) == [err |-> e, idx |-> 0 - 1]
NoValue == Err("no_value")

RemoveAt(s, i) == SubSeq(s, 1, i - 1) \o SubSeq(s, i + 1, Len(s))
Swap(s, i, j) == [s EXCEPT ![i] = s[j], ![j] = s[i]]
Range(s) == {s[i] : i \in 1..Len(s)}

\* ------------------------------------------------------------- the reactor
\* State threaded through one walk of the graph: the leaves' result slots and
\* waiter handles, the nodes' leaf lists, the fd sets and the aggregate deadline.
Walk0 == [wr |-> wait_result, wt |-> waiter, ev |-> events,
          readfds |-> {}, writefds |-> {}, exceptfds |-> {},
          timeout |-> NoTimeout, fired |-> {}, uaf |-> FALSE, overflow |-> {}]

\* dereferencing a pointer to a destroyed promise or leaf
Dangling(e) == \/ e \in Promises /\ ~alive[e]
               \/ e \in Leaves /\ ~lalive[e]

FdInDomain(f) == 0 <= f /\ f < FD_SETSIZE

\* bounds check of the fd against the select() domain
fd_out_of_domain(h) == ~FdInDomain(fd(h)) /\ ltimeout[h] = NoTimeout

\* the same check as the reactor in the header spells it
fd_out_of_domain_hpp(h) == fd(h) < 0 /\ fd(h) >= FD_SETSIZE /\ ltimeout[h] = NoTimeout

\* the check of the revision that is compiled in
rejects_fd(h) == IF reactor = "hpp" THEN fd_out_of_domain_hpp(h) ELSE fd_out_of_domain(h)

\* readiness bits of one leaf added to the fd sets; yields fd + 1 or 0.
\* FD_SET does not check its argument: a descriptor outside the set's domain
\* writes outside the fd_set object
extract_fd(h, s) ==
  LET f == fd(h) IN
  [s |-> [s EXCEPT !.readfds = IF "read" \in poll_events(h) THEN @ \cup {f} ELSE @,
                   !.writefds = IF "write" \in poll_events(h) THEN @ \cup {f} ELSE @,
                   !.exceptfds = IF "priority" \in poll_events(h) THEN @ \cup {f} ELSE @,
                   !.overflow = IF poll_events(h) # {} /\ ~FdInDomain(f)
                                THEN @ \cup {f} ELSE @],
   nfds |-> IF poll_events(h) = {} THEN 0 ELSE f + 1]

\* variant: the aggregate deadline keeps the latest deadline seen
extract_leaf_latest_deadline(h, s0, t) ==
  LET s == [s0 EXCEPT !.fired = IF s0.wr[h] # "uninitialized"
                                THEN @ \cup {"extract_events:pending_result"} ELSE @,
                      !.uaf = @ \/ Dangling(h)]
  IN
  IF rejects_fd(h)
  THEN [s |-> [s EXCEPT !.wr[h] = "bad_file_descriptor"], marked |-> TRUE, nfds |-> 0]
  ELSE IF ltimeout[h] # NoTimeout /\ ltimeout[h] < t
  THEN [s |-> [s EXCEPT !.wr[h] = "timed_out"], marked |-> TRUE, nfds |-> 0]
  ELSE LET s1 == IF ltimeout[h] = NoTimeout THEN s
                 ELSE [s EXCEPT !.timeout = IF @ = NoTimeout THEN ltimeout[h]
                                            ELSE Max(@, ltimeout[h])]
       IN IF fd(h) = NoFd
          THEN [s |-> s1, marked |-> FALSE, nfds |-> 0]
          ELSE LET x == extract_fd(h, s1) IN [s |-> x.s, marked |-> FALSE, nfds |-> x.nfds]

\* the awaitable_poll alternative of the collect visitor
extract_leaf(h, s0, t) ==
  LET s == [s0 EXCEPT !.fired = IF s0.wr[h] # "uninitialized"
                                THEN @ \cup {"extract_events:pending_result"} ELSE @,
                      !.uaf = @ \/ Dangling(h)]
  IN
  IF rejects_fd(h)
  THEN [s |-> [s EXCEPT !.wr[h] = "bad_file_descriptor"], marked |-> TRUE, nfds |-> 0]
  ELSE IF ltimeout[h] # NoTimeout /\ ltimeout[h] < t
  THEN [s |-> [s EXCEPT !.wr[h] = "timed_out"], marked |-> TRUE, nfds |-> 0]
  ELSE LET s1 == IF ltimeout[h] = NoTimeout THEN s
                 ELSE [s EXCEPT !.timeout = IF @ = NoTimeout THEN ltimeout[h]
                                            ELSE Min(@, ltimeout[h])]
       IN IF fd(h) = NoFd
          THEN [s |-> s1, marked |-> FALSE, nfds |-> 0]
          ELSE LET x == extract_fd(h, s1) IN [s |-> x.s, marked |-> FALSE, nfds |-> x.nfds]

\* the partition loop of the collect phase over the leaves of node p:
\* i walks forward, a marked leaf is swapped to the slot before to_resume
RECURSIVE extract_leaves(_, _, _, _, _, _)
extract_leaves(p, i, to_resume, s, t, acc) ==
  IF i = to_resume THEN [s |-> s, r |-> acc]
  ELSE LET x == extract_leaf(s.ev[p][i], s, t)
           acc1 == [ok |-> TRUE, nfds |-> Max(acc.nfds, x.nfds)]
       IN IF x.marked
          THEN extract_leaves(p, i, to_resume - 1,
                              [x.s EXCEPT !.ev[p] = Swap(@, i, to_resume - 1)], t, acc1)
          ELSE extract_leaves(p, i + 1, to_resume, x.s, t, acc1)

RECURSIVE extract_events(_, _, _)
RECURSIVE extract_callees(_, _, _, _, _)
\* variant: the walk visits one child of a node and skips its siblings
extract_callees_one_child(p, i, s, t, acc) ==
  IF i > Len(callees[p]) THEN [s |-> s, r |-> acc]
  ELSE LET c == callees[p][i]
           x == IF c = NOP THEN [s |-> s, r |-> [ok |-> FALSE, nfds |-> 0]]
                ELSE extract_events(c, [s EXCEPT !.uaf = @ \/ Dangling(c)], t)
       IN [s |-> x.s, r |-> IF x.r.ok THEN [ok |-> TRUE, nfds |-> Max(acc.nfds, x.r.nfds)]
                            ELSE acc]

\* the promise alternative of the collect visitor, over the children of node p
extract_callees(p, i, s, t, acc) ==
  IF i > Len(callees[p]) THEN [s |-> s, r |-> acc]
  ELSE LET c == callees[p][i]
           x == IF c = NOP THEN [s |-> s, r |-> [ok |-> FALSE, nfds |-> 0]]
                ELSE extract_events(c, [s EXCEPT !.uaf = @ \/ Dangling(c)], t)
       IN extract_callees(p, i + 1, x.s, t,
                          IF x.r.ok THEN [ok |-> TRUE, nfds |-> Max(acc.nfds, x.r.nfds)]
                          ELSE acc)

\* variant: a node without anything pending reports zero descriptors
extract_events_never_empty(polled, s, t) ==
  LET a == extract_callees(polled, 1, s, t, [ok |-> TRUE, nfds |-> 0])
  IN extract_leaves(polled, 1, Len(a.s.ev[polled]) + 1, a.s, t, a.r)

\* collect phase: r.ok = FALSE stands for the error no_io_pending
extract_events(polled, s, t) ==
  LET a == extract_callees(polled, 1, s, t, [ok |-> FALSE, nfds |-> 0])
  IN extract_leaves(polled, 1, Len(a.s.ev[polled]) + 1, a.s, t, a.r)

IsReady(s, h) == s.wr[h] # "uninitialized"

\* index of the first leaf of p with a result, Len + 1 when there is none
RECURSIVE FirstReady(_, _, _)
FirstReady(s, p, i) ==
  IF i > Len(s.ev[p]) THEN i
  ELSE IF IsReady(s, s.ev[p][i]) THEN i ELSE FirstReady(s, p, i + 1)

\* variant: after a timeout every leaf that has a deadline is timed out
mark_leaf_any_deadline(h, s, t, sel) ==
  IF t # NoTimeout
  THEN IF ltimeout[h] = NoTimeout
       THEN [s |-> s, marked |-> FALSE]
       ELSE [s |-> [s EXCEPT !.wr[h] = "timed_out"], marked |-> TRUE]
  ELSE IF fd(h) = NoFd THEN [s |-> s, marked |-> FALSE]
  ELSE IF ~("read" \in poll_events(h) /\ fd(h) \in sel.readfds)
          /\ ~("write" \in poll_events(h) /\ fd(h) \in sel.writefds)
          /\ ~("priority" \in poll_events(h) /\ fd(h) \in sel.exceptfds)
       THEN [s |-> s, marked |-> FALSE]
       ELSE [s |-> [s EXCEPT !.wr[h] = "ok"], marked |-> TRUE]

\* the awaitable_poll alternative of the mark visitor; t is the time at which
\* select() timed out, NoTimeout when it reported ready descriptors
mark_leaf(h, s, t, sel) ==
  IF t # NoTimeout
  THEN IF ltimeout[h] = NoTimeout \/ t < ltimeout[h]
       THEN [s |-> s, marked |-> FALSE]
       ELSE [s |-> [s EXCEPT !.wr[h] = "timed_out"], marked |-> TRUE]
  ELSE IF fd(h) = NoFd THEN [s |-> s, marked |-> FALSE]
  ELSE IF ~("read" \in poll_events(h) /\ fd(h) \in sel.readfds)
          /\ ~("write" \in poll_events(h) /\ fd(h) \in sel.writefds)
          /\ ~("priority" \in poll_events(h) /\ fd(h) \in sel.exceptfds)
       THEN [s |-> s, marked |-> FALSE]
       ELSE [s |-> [s EXCEPT !.wr[h] = "ok"], marked |-> TRUE]

RECURSIVE mark_leaves(_, _, _, _, _, _)
mark_leaves(p, i, to_resume, s, t, sel) ==
  IF i >= to_resume THEN s
  ELSE LET x == mark_leaf(s.ev[p][i], [s EXCEPT !.uaf = @ \/ Dangling(s.ev[p][i])], t, sel)
       IN IF x.marked
          THEN mark_leaves(p, i, to_resume - 1,
                           [x.s EXCEPT !.ev[p] = Swap(@, i, to_resume - 1)], t, sel)
          ELSE mark_leaves(p, i + 1, to_resume, x.s, t, sel)

RECURSIVE mark_events(_, _, _, _)
RECURSIVE mark_callees(_, _, _, _, _)
mark_callees(p, i, s, t, sel) ==
  IF i > Len(callees[p]) THEN s
  ELSE LET c == callees[p][i]
       IN mark_callees(p, i + 1,
                       IF c = NOP THEN s
                       ELSE mark_events(c, [s EXCEPT !.uaf = @ \/ Dangling(c)], t, sel),
                       t, sel)

\* mark phase
mark_events(polled, s, t, sel) ==
  LET a == mark_callees(polled, 1, s, t, sel)
  IN mark_leaves(polled, 1, FirstReady(a, polled, 1), a, t, sel)

\* index of the last leaf of p at or before i that has a result, 0 if none
RECURSIVE LastReady(_, _, _)
LastReady(s, p, i) ==
  IF i = 0 THEN 0
  ELSE IF IsReady(s, s.ev[p][i]) THEN i ELSE LastReady(s, p, i - 1)

\* dispatch phase, one handler: walks the children back to front (leaves of
\* the node first, then its child promises, depth first) and unlinks the first
\* leaf that has a result; h is the handle to resume, Null if there is none
\* variant: the leaf is unlinked but keeps its waiter handle
pop_leaf_keeps_waiter(polled, s, i) ==
  LET h == s.ev[polled][i]
  IN [s |-> [s EXCEPT !.ev[polled] = RemoveAt(@, i), !.uaf = @ \/ Dangling(h)],
      h |-> s.wt[h], leaf |-> h]

\* the awaitable_poll alternative of the dispatch visitor, for a leaf with a
\* result: its waiter is taken out and the leaf is erased from the list
pop_leaf(polled, s, i) ==
  LET h == s.ev[polled][i]
  IN [s |-> [s EXCEPT !.wt[h] = Null,
                      !.ev[polled] = RemoveAt(@, i),
                      !.uaf = @ \/ Dangling(h),
                      !.fired = IF s.wt[h] = Null
                                THEN @ \cup {"pop_ready_completion_handler:waiter"}
                                ELSE @],
      h |-> s.wt[h], leaf |-> h]

RECURSIVE pop_ready_completion_handler(_, _)
RECURSIVE pop_callees(_, _, _)
pop_callees(p, i, s) ==
  IF i = 0 THEN [s |-> s, h |-> Null, leaf |-> Null]
  ELSE LET c == callees[p][i]
           x == IF c = NOP THEN [s |-> s, h |-> Null, leaf |-> Null]
                ELSE pop_ready_completion_handler(c, [s EXCEPT !.uaf = @ \/ Dangling(c)])
       IN IF x.leaf # Null THEN x ELSE pop_callees(p, i - 1, x.s)

pop_ready_completion_handler(polled, s) ==
  LET i == LastReady(s, polled, Len(s.ev[polled]))
  IN IF i # 0 THEN pop_leaf(polled, s, i)
     ELSE pop_callees(polled, Len(callees[polled]), s)

\* ---------------------------------------------------- coroutine machinery
\* The mutable program state as one record; the operations below map a state
\* record to the state record after the operation.
G == [now |-> now, alive |-> alive, pc |-> pc, owner |-> owner, caller |-> caller,
      callees |-> callees, events |-> events, waits_on_me |-> waits_on_me,
      returned_value |-> returned_value, left |-> left, lalive |-> lalive,
      wait_result |-> wait_result, waiter |-> waiter, ltimeout |-> ltimeout,
      running |-> running, stack |-> stack, gpc |-> gpc, get_result |-> get_result,
      rx |-> rx, wx |-> wx, fired |-> fired, hist |-> hist]

\* assert(cond): a failed assertion is recorded; Commit ends a debug build on it
Check(g, cond, label) == IF cond THEN g ELSE [g EXCEPT !.fired = @ \cup {label}]

\* the coroutine suspends: control goes back to whoever resumed or called it
Suspend(g) == [g EXCEPT !.running = Head(g.stack), !.stack = Tail(g.stack)]

\* the caller pointer of a node nobody awaits: the node tops its own graph
no_caller == Null

\* the result of a poll request the reactor has not touched yet
initial_wait_result == "uninitialized"

\* a coroutine is called: frame and promise are created and the body starts
NewFrame(g, p, by, start) ==
  [g EXCEPT !.alive[p] = TRUE, !.pc[p] = start, !.owner[p] = by, !.caller[p] = no_caller,
            !.callees[p] = <<>>, !.events[p] = <<>>, !.waits_on_me[p] = Null,
            !.returned_value[p] = NoValue, !.running = p, !.stack = <<by>> \o g.stack]

\* co_await io::poll(...): the leaf is built in the frame and linked on suspend
NewLeaf(g, p, l, t) ==
  [g EXCEPT !.lalive[l] = TRUE, !.wait_result[l] = initial_wait_result, !.waiter[l] = p,
            !.ltimeout[l] = t, !.events[p] = Append(@, l), !.hist.resumes[l] = 0,
            !.hist.collected = @ \ {l}]

\* variant: the list is given back but the entries stay linked to wait
scope_exit_keeps_links(g, me) ==
  LET list == g.callees[me]
  IN [g EXCEPT !.callees[me] = g.wx[me].promises,
               !.wx[me].promises = [i \in 1..Len(list) |-> IF list[i] = NOP THEN Null
                                                            ELSE list[i]],
               !.wx[me].swapped = FALSE]

\* scope_exit of wait: give the caller its list back, hide the placeholder and
\* put every entry back at the top of its own graph
scope_exit(g, me) ==
  LET list == g.callees[me]
      linked == Range(list) \cap Promises
  IN [g EXCEPT !.callees[me] = g.wx[me].promises,
               !.wx[me].promises = [i \in 1..Len(list) |-> IF list[i] = NOP THEN Null
                                                            ELSE list[i]],
               !.wx[me].swapped = FALSE,
               !.caller = [q \in Promises |-> IF q \in linked THEN Null ELSE g.caller[q]],
               !.waits_on_me = [q \in Promises |-> IF q \in linked THEN Null
                                                   ELSE g.waits_on_me[q]],
               !.hist.uaf = @ \/ \E q \in linked : ~g.alive[q]]

\* frames in the order in which the futures holding them go out of scope
DestroyOrder == <<"wi2", "cmb2", "wi", "cmb", "wa", "wa2", "w4", "w3", "w2", "w1">>

RECURSIVE destroy(_, _)
RECURSIVE destroy_held(_, _, _)
\* the futures held by `holder` are destroyed
destroy_held(g, holder, i) ==
  IF i > Len(DestroyOrder) THEN g
  ELSE LET q == DestroyOrder[i]
       IN IF g.alive[q] /\ g.owner[q] = holder
          THEN destroy_held(destroy(g, q), holder, i + 1)
          ELSE destroy_held(g, holder, i + 1)

\* variant: the node stays in its caller's list
promise_dtor_no_erase(g, p) == g

\* ~promise_wait_callgraph: the node removes itself from its caller's list
promise_dtor(g, p) ==
  LET c == g.caller[p]
  IN IF c \in Promises
     THEN [g EXCEPT !.callees[c] = SeqRemove(@, p), !.hist.uaf = @ \/ ~g.alive[c]]
     ELSE g

\* future::destroy(): the frame's locals, then the promise with its result
destroy(g, p) ==
  LET g0 == IF p \in WaitIds /\ g.wx[p].swapped THEN scope_exit(g, p) ELSE g
      g1 == destroy_held(g0, p, 1)
      l == LeafOf(p)
      g2 == IF l # Null THEN [g1 EXCEPT !.lalive[l] = FALSE] ELSE g1
      g3 == IF p = "cmb" THEN destroy_held(g2, "rv", 1) ELSE g2
      g4 == promise_dtor(g3, p)
  IN [g4 EXCEPT !.alive[p] = FALSE, !.pc[p] = "dead", !.callees[p] = <<>>,
                !.events[p] = <<>>, !.caller[p] = Null, !.waits_on_me[p] = Null,
                !.owner[p] = Null, !.returned_value[p] = NoValue,
                !.hist.uaf = @ \/ ~g.alive[p],
                !.hist.cancelled = IF g.pc[p] # "done" THEN @ \cup {p} ELSE @]

\* variant: the final suspend always returns to the resumer
Finish_returns_to_resumer(g, p, v) ==
  LET g1 == destroy_held(g, p, 1)
      l == LeafOf(p)
      g2 == IF l # Null THEN [g1 EXCEPT !.lalive[l] = FALSE] ELSE g1
  IN Suspend([g2 EXCEPT !.returned_value[p] = v, !.pc[p] = "done"])

\* co_return v: the result is stored, the locals go out of scope and the final
\* suspend hands control to the awaiting coroutine, if there is one
Finish(g, p, v) ==
  LET g1 == destroy_held(g, p, 1)
      l == LeafOf(p)
      g2 == IF l # Null THEN [g1 EXCEPT !.lalive[l] = FALSE] ELSE g1
      h == g2.waits_on_me[p]
      g3 == [g2 EXCEPT !.returned_value[p] = v, !.pc[p] = "done", !.waits_on_me[p] = Null]
  IN IF h = Null THEN Suspend(g3)
     ELSE [g3 EXCEPT !.running = h, !.hist.uaf = @ \/ ~g3.alive[h]]

\* awaiting a child future: the child must top its own graph; it is appended
\* to the awaiting node's child list and its caller set to that node
link_child(g, p, c) ==
  [Check(g, g.caller[c] = Null, "await_transform:caller")
     EXCEPT !.callees[p] = Append(@, c), !.caller[c] = p]

\* co_await of a future: nothing to wait for when it is done, else the child
\* is linked under the awaiting node, which becomes its final waiter
Await(g, p, c, next) ==
  IF g.pc[c] = "done" THEN [g EXCEPT !.pc[p] = next]
  ELSE LET g1 == link_child(g, p, c)
           g2 == Check(g1, g.waits_on_me[c] = Null, "future::await_suspend:waits_on_me")
       IN Suspend([g2 EXCEPT !.waits_on_me[c] = p, !.pc[p] = next])

\* future::await_resume: the value is moved out and the frame destroyed
await_resume(g, c) ==
  destroy(Check(g, g.pc[c] = "done", "future::await_resume:done"), c)

\* an I/O coroutine in the manner of file_descriptor::read: poll, then a
\* non-blocking transfer, until nothing is left to do
Worker(g, w) ==
  IF g.pc[w] = "w_loop"
  THEN IF g.left[w] = 0 THEN Finish(g, w, Ok(0))
       ELSE Suspend(NewLeaf([g EXCEPT !.pc[w] = "w_poll"], w, LeafOf(w), wdeadline[w]))
  ELSE LET l == LeafOf(w)
           r == g.wait_result[l]
           g1 == [g EXCEPT !.lalive[l] = FALSE]
       IN IF r # "ok" THEN Finish(g1, w, Err(r))
          ELSE [g1 EXCEPT !.left[w] = @ - 1, !.pc[w] = "w_loop"]

\* ------------------------------------------------------------ wait
\* smallest / largest position in lo..hi whose entry is (is not) a nullptr
FindFirst(list, lo, hi, null) ==
  LET S == {i \in lo..hi : (list[i] = Null) = null}
  IN IF S = {} THEN hi + 1 ELSE CHOOSE i \in S : \A j \in S : i <= j
FindLast(list, lo, hi, null) ==
  LET S == {i \in lo..hi : (list[i] = Null) = null}
  IN IF S = {} THEN lo - 1 ELSE CHOOSE i \in S : \A j \in S : i >= j

callerOf(g, q) == IF q = NOP THEN Null ELSE g.caller[q]

\* variant: the input that became ready stays linked under wait
mark_ready_keeps_caller(g, me, q) ==
  LET g1 == Check(g, g.caller[q] = me, "wait:mark_ready:caller")
      g2 == Check(g1, g.waits_on_me[q] \in {Null, me}, "wait:mark_ready:waits_on_me")
  IN [g2 EXCEPT !.waits_on_me[q] = Null]

\* mark_ready: the input goes back to the top of its own graph
mark_ready(g, me, q) ==
  LET g1 == Check(g, g.caller[q] = me, "wait:mark_ready:caller")
      g2 == Check(g1, g.waits_on_me[q] \in {Null, me}, "wait:mark_ready:waits_on_me")
  IN [g2 EXCEPT !.caller[q] = Null, !.waits_on_me[q] = Null]

\* stop_waiting: the result is returned through the scope exit
stop_waiting(g, me) ==
  LET frf == g.wx[me].first_ready_future
      ok == g.wx[me].err = "none"
      g1 == Check(g, ~ok \/ frf # Len(g.callees[me]), "wait:stop_waiting:index")
      g2 == Check(g1, ~ok \/ g.wx[me].mode # "all" \/ frf = 0, "wait:stop_waiting:all")
  IN Finish(scope_exit(g2, me), me, IF ok THEN Ok(frf) ELSE Err(g.wx[me].err))

\* head of the wait loop: suspend while an input is not ready
wait_loop(g, me) ==
  IF g.wx[me].fnr # g.wx[me].lnr
  THEN LET g1 == Check(g, g.events[me] = <<>>, "wait:events_empty")
           g2 == Check(g1, g.wx[me].mode # "first"
                           \/ g.wx[me].first_ready_future = Len(g.callees[me]),
                       "wait:first_completed")
       IN Suspend([g2 EXCEPT !.pc[me] = "c_wait"])
  ELSE stop_waiting(g, me)

\* variant: every linked input counts as having become ready
became_ready_if_linked(g, q) == callerOf(g, q) # Null

\* an input we linked has reached its final suspend: it took its waiter out
became_ready(g, q) == callerOf(g, q) # Null /\ g.waits_on_me[q] = Null

\* the scan over [first_not_ready_future, last_not_ready_future) after a wake
RECURSIVE wait_scan(_, _, _)
wait_scan(g, me, future) ==
  IF future = g.wx[me].lnr THEN [g |-> g, stop |-> FALSE]
  ELSE LET q == g.callees[me][future + 1]
           not_ready == callerOf(g, q) # Null
           g1 == IF not_ready
                 THEN Check(Check(g, g.caller[q] = me, "wait:scan:caller"),
                            g.waits_on_me[q] \in {Null, me}, "wait:scan:waits_on_me")
                 ELSE g
           hit == became_ready(g, q) /\ g.wx[me].first_ready_future > future
           g2 == IF hit THEN [g1 EXCEPT !.wx[me].first_ready_future = future] ELSE g1
       IN IF hit /\ g.wx[me].mode = "first" THEN [g |-> g2, stop |-> TRUE]
          ELSE LET g3 == IF became_ready(g, q) THEN mark_ready(g2, me, q) ELSE g2
                   ready == callerOf(g3, q) = Null
               IN IF ready /\ future = g3.wx[me].fnr
                  THEN wait_scan([g3 EXCEPT !.wx[me].fnr = @ + 1], me, future + 1)
                  ELSE IF ready /\ future + 1 = g3.wx[me].lnr
                  THEN [g |-> [g3 EXCEPT !.wx[me].lnr = @ - 1], stop |-> FALSE]
                  ELSE wait_scan(g3, me, future + 1)

\* variant: an empty list is not told apart
empty_never(promises) == FALSE

\* sbo_vector::empty, as the special case of wait tests it
empty(promises) == Len(promises) = 0

\* wait_t::operator() from its call to its first suspension or return
wait_start(g, me) ==
  LET promises == g.wx[me].promises
      n == Len(promises)
      frf == FindFirst(promises, 1, n, TRUE) - 1
  IN IF empty(promises) THEN Finish(g, me, Ok(0))
     ELSE IF g.wx[me].mode = "first" /\ frf # n THEN Finish(g, me, Ok(frf))
     ELSE
       LET fnr == IF frf # 0 THEN 0 ELSE FindFirst(promises, 2, n, FALSE) - 1
           lnr == FindLast(promises, fnr + 1, n, FALSE)
           ins == Range(promises) \ {Null}
           g1 == Check(g, \A q \in ins : g.waits_on_me[q] = Null, "wait:link:waits_on_me")
           g2 == Check(g1, \A q \in ins : g.caller[q] = Null, "wait:link:stealing")
           g3 == [g2 EXCEPT
                    !.wx[me].promises = g.callees[me], !.wx[me].swapped = TRUE,
                    !.wx[me].first_ready_future = frf, !.wx[me].fnr = fnr, !.wx[me].lnr = lnr,
                    !.hist.entry = g.callees[me],
                    !.callees[me] = [i \in 1..n |-> IF promises[i] = Null THEN NOP
                                                     ELSE promises[i]],
                    !.caller = [q \in Promises |-> IF q \in ins THEN me ELSE g.caller[q]],
                    !.waits_on_me = [q \in Promises |-> IF q \in ins THEN me
                                                        ELSE g.waits_on_me[q]]]
           g4 == IF TimeoutOf(me) # NoTimeout
                 THEN NewLeaf([g3 EXCEPT !.wx[me].timer = TRUE], me, TimerOf(me), TimeoutOf(me))
                 ELSE g3
       IN wait_loop(g4, me)

\* variant: an armed timer is taken to have fired on every wake
wait_resume_timer_always(g, me) ==
  IF g.wx[me].timer
  THEN stop_waiting([g EXCEPT !.wx[me].err = g.wait_result[TimerOf(me)]], me)
  ELSE LET x == wait_scan(g, me, g.wx[me].fnr)
       IN IF x.stop THEN stop_waiting(x.g, me) ELSE wait_loop(x.g, me)

\* wait_t::operator() from a wake to its next suspension or return
wait_resume(g, me) ==
  IF g.wx[me].timer /\ g.waiter[TimerOf(me)] = Null
  THEN stop_waiting(Check([g EXCEPT !.wx[me].err = g.wait_result[TimerOf(me)]],
                          TimerOf(me) \notin Range(g.events[me]), "wait:timer_unlinked"),
                    me)
  ELSE LET x == wait_scan(g, me, g.wx[me].fnr)
       IN IF x.stop THEN stop_waiting(x.g, me) ELSE wait_loop(x.g, me)

\* the futures a wait(until, ...) coroutine was called with
InputsOf(c) == CASE c = "cmb2" -> <<"w3", "w4">>
                 [] kind = "nested" -> <<"w1", "w2", "wa2">>
                 [] kind = "wait1" -> <<"w1">>
                 [] kind = "wait0" -> <<>>
                 [] OTHER -> Workers

\* the futures handed to a combinator, as pointers: nullptr for a done one
InputPointers(g, c) ==
  [i \in 1..Len(InputsOf(c)) |->
     IF g.alive[InputsOf(c)[i]] /\ g.pc[InputsOf(c)[i]] # "done" THEN InputsOf(c)[i]
     ELSE Null]

\* the wait(until, first, last, timeout) coroutine wrapped around wait_t::operator()
wait_wrapper(g, c, oom) ==
  CASE g.pc[c] = "h_start" ->
         IF oom THEN Finish(g, c, Err("not_enough_memory"))
         ELSE NewFrame([g EXCEPT !.pc[c] = "h_await",
                                 !.wx[Inner(c)].promises = InputPointers(g, c)],
                       Inner(c), c, "c_start")
    [] g.pc[c] = "h_await" -> Await(g, c, Inner(c), "h_resume")
    [] OTHER -> LET r == g.returned_value[Inner(c)]
                IN Finish(await_resume(g, Inner(c)), c, r)

\* reserve(count): only a count beyond the inline slots allocates, and may fail
MayFail(count) == count > small_capacity

\* ------------------------------------------------------------ when_any
\* variant: only the inputs in front of the first done one are moved
when_any_start_takes_linked(g, oom) ==
  IF oom THEN Finish(g, "cmb", Err("not_enough_memory"))
  ELSE
    LET n == Len(Workers)
        done == {i \in 1..n : g.pc[Workers[i]] = "done"}
        d == IF done = {} THEN n + 1 ELSE CHOOSE i \in done : \A j \in done : i <= j
        before == {Workers[i] : i \in 1..(d - 1)}
        g1 == Check(g, \A w \in WorkerSet : g.alive[w], "when_any:moved_from")
        g2 == Check(g1, \A w \in WorkerSet : g.waits_on_me[w] = Null, "when_any:waits_on_me")
        g3 == Check(g2, \A w \in before : g.caller[w] = w, "when_any:stealing")
        g4 == [g3 EXCEPT !.owner = [q \in Promises |-> IF q \in before THEN "rv"
                                                       ELSE g.owner[q]],
                         !.hist.entry = g.callees["cmb"],
                         !.callees["cmb"] = @ \o SubSeq(Workers, 1, d - 1)]
    IN IF d <= n
       THEN \* early escape: the inputs linked so far are put back
            Finish([g4 EXCEPT !.caller = [q \in Promises |-> IF q \in before THEN q
                                                            ELSE g.caller[q]],
                              !.waits_on_me = [q \in Promises |-> IF q \in before THEN Null
                                                                  ELSE g.waits_on_me[q]],
                              !.wx.index = d - 1],
                   "cmb", Ok(d - 1))
       ELSE Suspend([g4 EXCEPT !.caller = [q \in Promises |-> IF q \in before THEN "cmb"
                                                              ELSE g.caller[q]],
                               !.waits_on_me = [q \in Promises |-> IF q \in before THEN "cmb"
                                                                   ELSE g.waits_on_me[q]],
                               !.pc["cmb"] = "a_wait"])

\* when_any over a range, from its call to its suspension or return
when_any_start(g, oom) ==
  IF oom THEN Finish(g, "cmb", Err("not_enough_memory"))
  ELSE
    LET n == Len(Workers)
        done == {i \in 1..n : g.pc[Workers[i]] = "done"}
        d == IF done = {} THEN n + 1 ELSE CHOOSE i \in done : \A j \in done : i <= j
        before == {Workers[i] : i \in 1..(d - 1)}
        g1 == Check(g, \A w \in WorkerSet : g.alive[w], "when_any:moved_from")
        g2 == Check(g1, \A w \in WorkerSet : g.waits_on_me[w] = Null, "when_any:waits_on_me")
        g3 == Check(g2, \A w \in before : g.caller[w] = w, "when_any:stealing")
        g4 == [g3 EXCEPT !.owner = [q \in Promises |-> IF q \in WorkerSet THEN "rv"
                                                       ELSE g.owner[q]],
                         !.hist.entry = g.callees["cmb"],
                         !.callees["cmb"] = @ \o SubSeq(Workers, 1, d - 1)]
    IN IF d <= n
       THEN \* early escape: the inputs linked so far are put back
            Finish([g4 EXCEPT !.caller = [q \in Promises |-> IF q \in before THEN q
                                                            ELSE g.caller[q]],
                              !.waits_on_me = [q \in Promises |-> IF q \in before THEN Null
                                                                  ELSE g.waits_on_me[q]],
                              !.wx.index = d - 1],
                   "cmb", Ok(d - 1))
       ELSE Suspend([g4 EXCEPT !.caller = [q \in Promises |-> IF q \in before THEN "cmb"
                                                              ELSE g.caller[q]],
                               !.waits_on_me = [q \in Promises |-> IF q \in before THEN "cmb"
                                                                   ELSE g.waits_on_me[q]],
                               !.pc["cmb"] = "a_wait"])

\* when_any after the wake: find the future that woke it, put all of them back
when_any_resume(g) ==
  LET n == Len(Workers)
      woke == {i \in 1..n : g.waits_on_me[Workers[i]] = Null}
      index == IF woke = {} THEN 0 - 1
               ELSE (CHOOSE i \in woke : \A j \in woke : i <= j) - 1
      g1 == Check(g, \A w \in WorkerSet : g.alive[w], "when_any:handle")
  IN Finish([g1 EXCEPT !.caller = [q \in Promises |-> IF q \in WorkerSet THEN q
                                                     ELSE g.caller[q]],
                       !.waits_on_me = [q \in Promises |-> IF q \in WorkerSet THEN Null
                                                           ELSE g.waits_on_me[q]],
                       !.callees["cmb"] = <<>>,
                       !.wx.index = index],
            "cmb", Ok(index))

\* ------------------------------------------------------------ when_all
\* success of when_all: the inputs' own results, one per position
OkAll(vals) == [err |-> "none", idx |-> 0, vals |-> vals]

\* the wait(until::all_completed, ...) coroutine a when_all calls
WaitOf(a) == IF a = "wa" THEN "cmb" ELSE "cmb2"

\* my_futures: the futures a when_all took ownership of
FuturesOf(a) == InputsOf(WaitOf(a))

\* co_await of each of my_futures in turn, then co_return of the results
RECURSIVE gather(_, _)
RECURSIVE gather_bubbles(_, _)
\* variant: the first input that holds an error ends when_all with that error
gather_bubbles(g, a) ==
  LET k == Len(g.wx[a]) + 1
  IN IF k > Len(FuturesOf(a)) THEN Finish(g, a, OkAll(g.wx[a]))
     ELSE LET q == FuturesOf(a)[k]
          IN IF g.pc[q] = "done" /\ g.returned_value[q].err # "none"
             THEN Finish(g, a, Err(g.returned_value[q].err))
             ELSE IF g.pc[q] = "done"
             THEN gather_bubbles([await_resume(g, q)
                                    EXCEPT !.wx[a] = Append(@, g.returned_value[q])], a)
             ELSE Await(g, a, q, "t_gather")

gather(g, a) ==
  LET k == Len(g.wx[a]) + 1
  IN IF k > Len(FuturesOf(a)) THEN Finish(g, a, OkAll(g.wx[a]))
     ELSE LET q == FuturesOf(a)[k]
          IN IF g.pc[q] = "done"
             THEN gather([await_resume(g, q) EXCEPT !.wx[a] = Append(@, g.returned_value[q])],
                         a)
             ELSE Await(g, a, q, "t_gather")

\* when_all from taking ownership of its inputs to its co_return
when_all_body(g, a) ==
  CASE g.pc[a] = "t_start" ->
         NewFrame([g EXCEPT !.pc[a] = "t_await",
                            !.owner = [q \in Promises |-> IF q \in Range(FuturesOf(a)) THEN a
                                                          ELSE g.owner[q]],
                            !.wx[Inner(WaitOf(a))].mode = "all"],
                  WaitOf(a), a, "h_start")
    [] g.pc[a] = "t_await" -> Await(g, a, WaitOf(a), "t_resume")
    [] g.pc[a] = "t_resume" ->
         LET r == g.returned_value[WaitOf(a)]
             g1 == await_resume(g, WaitOf(a))
         IN IF r.err # "none" THEN Finish(g1, a, Err(r.err)) ELSE gather(g1, a)
    [] OTHER -> gather(g, a)

\* when_all(future<Ts>&&...)
when_all_tuple(g) == when_all_body(g, "wa")

\* when_all(first, last, timeout): the result vector and my_futures are
\* reserved before any future is taken
when_all_range(g, oom) ==
  IF oom THEN Finish(g, "wa2", Err("not_enough_memory")) ELSE when_all_body(g, "wa2")

\* a coroutine that suspends without leaving a poll request behind
Idle(g) == Suspend([g EXCEPT !.pc["cmb"] = "i_idle"])

\* ------------------------------------------------------------ the root
SpawnPc == <<"r_s1", "r_s2", "r_s3">>
AwaitPc == <<"r_a1", "r_a2", "r_a3">>
GotPc == <<"r_g1", "r_g2", "r_g3">>
PosOf(seq, x) == CHOOSE i \in 1..Len(seq) : seq[i] = x
\* the number of worker coroutines the root starts itself
NSpawn == IF kind = "wait0" THEN 0
          ELSE IF kind \in {"await1", "wait1"} THEN 1 ELSE Len(Workers)
\* where the root coroutine starts
RootEntry == IF NSpawn = 0 THEN "r_call" ELSE SpawnPc[1]
After(seq, i, last) == IF i < NSpawn THEN seq[i + 1] ELSE last

w0 == [promises |-> <<>>, swapped |-> FALSE, mode |-> "none", first_ready_future |-> 0,
       fnr |-> 0, lnr |-> 0, timer |-> FALSE, err |-> "none"]
wx0 == [wi |-> w0, wi2 |-> w0, wa |-> <<>>, wa2 |-> <<>>, index |-> 0 - 1,
        rootv |-> NoValue, round |-> 0, driven |-> "root"]

\* programs that use the futures a combinator handed back: the root awaits
\* them one by one (AwaitAgain) or passes them to wait(all_completed) (WaitAgain)
AwaitAgain == {"first_await", "any_await"}
WaitAgain == {"first_wait", "any_wait"}
\* programs whose root returns the futures to main, which calls get() on them
DriveAgain == {"first_get", "any_get"}
\* the combinator the root calls first
FirstCall == CASE kind \in {"first_await", "first_wait", "first_get"} -> "wait_first"
               [] kind \in {"any_await", "any_wait", "any_get"} -> "when_any"
               [] OTHER -> kind

\* the future the root coroutine awaits
Top == IF kind \in {"when_all", "nested"} THEN "wa" ELSE "cmb"

\* the root coroutine: starts the workers, awaits them one by one or through a
\* combinator, may drop the ones still in flight, does one poll of its own
Root(g) ==
  LET at == g.pc["root"] IN
  IF at \in Range(SpawnPc)
  THEN LET i == PosOf(SpawnPc, at)
       IN NewFrame([g EXCEPT !.pc["root"] = After(SpawnPc, i, IF kind = "nested" THEN "r_s4"
                                                              ELSE "r_call"),
                             !.left[Workers[i]] = polls[Workers[i]]],
                   Workers[i], "root", "w_loop")
  ELSE IF at = "r_s4"
  THEN NewFrame([g EXCEPT !.pc["root"] = "r_inner", !.left["w4"] = polls["w4"]],
                "w4", "root", "w_loop")
  ELSE IF at = "r_inner"
  THEN NewFrame([g EXCEPT !.pc["root"] = "r_call"], "wa2", "root", "t_start")
  ELSE IF at = "r_call"
  THEN IF kind \in {"await", "await1"}
       THEN [g EXCEPT !.pc["root"] = AwaitPc[1], !.wx.rootv = Ok(0)]
       ELSE IF kind \in {"when_all", "nested"}
       THEN NewFrame([g EXCEPT !.pc["root"] = "r_await"], "wa", "root", "t_start")
       ELSE IF g.wx.round = 1
       THEN NewFrame([g EXCEPT !.pc["root"] = "r_await",
                               !.wx["wi"] = [w0 EXCEPT !.mode = "all"]],
                     "cmb", "root", "h_start")
       ELSE NewFrame([g EXCEPT !.pc["root"] = "r_await",
                               !.wx["wi"].mode = IF kind \in {"wait_all", "wait1", "wait0"}
                                                 THEN "all"
                                                 ELSE IF FirstCall = "wait_first"
                                                 THEN "first" ELSE "any"],
                     "cmb", "root", CASE FirstCall = "when_any" -> "a_start"
                                      [] kind = "idle" -> "i_start"
                                      [] OTHER -> "h_start")
  ELSE IF at \in Range(AwaitPc)
  THEN LET i == PosOf(AwaitPc, at) IN Await(g, "root", Workers[i], GotPc[i])
  ELSE IF at \in Range(GotPc)
  THEN LET i == PosOf(GotPc, at)
           r == g.returned_value[Workers[i]]
           g1 == await_resume(g, Workers[i])
       IN [g1 EXCEPT !.pc["root"] = After(AwaitPc, i, "r_after"),
                     !.wx.rootv = IF @.err = "none" THEN r ELSE @]
  ELSE IF at = "r_await" THEN Await(g, "root", Top, "r_resume")
  ELSE IF at = "r_resume"
  THEN LET r == g.returned_value[Top]
           g1 == [g EXCEPT !.owner = [q \in Promises |-> IF g.owner[q] = "rv" THEN "root"
                                                         ELSE g.owner[q]]]
           g2 == await_resume(g1, Top)
       IN IF (kind = "wait1" /\ r.err = "none") \/ kind \in AwaitAgain
          THEN [g2 EXCEPT !.pc["root"] = AwaitPc[1], !.wx.rootv = Ok(0)]
          ELSE IF kind \in WaitAgain /\ g.wx.round = 0
          THEN [g2 EXCEPT !.pc["root"] = "r_call", !.wx.round = 1]
          ELSE IF kind \in DriveAgain
          THEN LET g3 == [g2 EXCEPT !.owner = [q \in Promises |->
                                                IF g2.owner[q] = "root" THEN "main"
                                                ELSE g2.owner[q]]]
               IN [Finish(g3, "root", r) EXCEPT !.hist.stored = r]
          ELSE [g2 EXCEPT !.pc["root"] = "r_after", !.wx.rootv = r]
  ELSE IF at = "r_after"
  THEN LET g1 == IF cancel THEN destroy_held(g, "root", 1) ELSE g
       IN Suspend(NewLeaf([g1 EXCEPT !.pc["root"] = "r_polled"], "root", "l0", NoTimeout))
  ELSE LET r == g.wait_result["l0"]
           v == IF r = "ok" THEN g.wx.rootv ELSE Err(r)
       IN [Finish(g, "root", v) EXCEPT !.hist.stored = v]

\* ------------------------------------- dispatch phase of the header reactor
\* the leaves in the order a depth-first walk from p meets them: the leaves
\* of a node last-added first, then its child promises last-added first
Reverse(q) == [k \in 1..Len(q) |-> q[Len(q) + 1 - k]]

RECURSIVE DfsLeaves(_, _, _)
RECURSIVE DfsCallees(_, _, _, _)
DfsCallees(g, p, i, d) ==
  IF i = 0 THEN <<>>
  ELSE DfsLeaves(g, g.callees[p][i], d) \o DfsCallees(g, p, i - 1, d)

DfsLeaves(g, p, d) ==
  IF p \notin Promises \/ d = 0 THEN <<>>
  ELSE Reverse(g.events[p]) \o DfsCallees(g, p, Len(g.callees[p]), d - 1)

ready_to_resume(g, h) == g.wait_result[h] # "uninitialized"

\* the leaf the dispatch phase has to pick next, Null when none is ready
FirstReadyLeaf(g) ==
  LET l == DfsLeaves(g, g.wx.driven, Cardinality(Promises))
      S == {k \in 1..Len(l) : ready_to_resume(g, l[k])}
  IN IF S = {} THEN Null ELSE l[CHOOSE k \in S : \A j \in S : k <= j]

\* one activation of dispatch_events(polled): where it stands in its body
\* (phase), first_resume, resume_count and i of the resume loop, and the
\* iterator of the range-for over polled.callees with the list it points into
frame0(p) == [p |-> p, phase |-> "enter", first_resume |-> 0, resume_count |-> 0,
              i |-> 0, it |-> 1, snap |-> <<>>]

\* distance(begin, find_if(events, ready_to_resume))
first_resume(g, p) ==
  LET ev == g.events[p]
      S == {k \in 1..Len(ev) : ready_to_resume(g, ev[k])}
  IN IF S = {} THEN Len(ev) ELSE (CHOOSE k \in S : \A j \in S : k <= j) - 1

\* distance(to_resume, find_if(to_resume, end, not_ready_to_resume))
resume_count(g, p) ==
  LET ev == g.events[p]
      f == first_resume(g, p)
      N == {k \in (f + 1)..Len(ev) : ~ready_to_resume(g, ev[k])}
  IN IF N = {} THEN Len(ev) - f ELSE (CHOOSE k \in N : \A j \in N : k <= j) - 1 - f

\* the walk read or wrote through a reference that no longer points at what
\* it was taken from
stale(g) == [g EXCEPT !.hist.uaf = TRUE]

\* one turn of the resume loop: the waiter of the leaf at first_resume + i - 1
\* is taken out, the leaf is popped when it is the last of the list, and the
\* waiter is resumed while this activation and its callers stay on the stack
resume_waiter(g, rest, f) ==
  LET p == f.p
      ev == g.events[p]
      k == f.first_resume + f.i
  IN IF ~g.alive[p] \/ k > Len(ev)
     THEN [stale(g) EXCEPT !.rx.walk = rest]
     ELSE LET h == ev[k]
              w == g.waiter[h]
              back == Len(ev) = f.first_resume + f.resume_count
              f1 == [f EXCEPT !.phase = "resumed", !.i = @ - 1,
                              !.resume_count = IF back THEN @ - 1 ELSE @]
              g1 == [g EXCEPT !.waiter[h] = Null,
                              !.events[p] = IF back THEN RemoveAt(@, Len(ev)) ELSE @,
                              !.rx.walk = Append(rest, f1),
                              !.hist.order = @ /\ h = FirstReadyLeaf(g),
                              !.hist.uaf = @ \/ ~g.lalive[h]]
          IN IF w = Null THEN stale(g1)
             ELSE [g1 EXCEPT !.running = w, !.stack = <<"main">>,
                             !.hist.resumes[h] = @ + 1,
                             !.hist.collected = @ \ {h},
                             !.hist.uaf = @ \/ ~g.lalive[h] \/ ~g.alive[w]]

\* dispatch_events, run until it resumes a waiter or returns to operator();
\* ub picks what a read through a stale callee iterator does: the loop ends
\* ("stop") or goes on over the list as it is now ("go")
RECURSIVE dispatch_events(_, _)
dispatch_events(g, ub) ==
  LET w == g.rx.walk
  IN IF w = <<>> \/ g.running # "main" THEN g
     ELSE
       LET f == w[Len(w)]
           rest == SubSeq(w, 1, Len(w) - 1)
           p == f.p
           pop == [g EXCEPT !.rx.walk = rest]
       IN IF p = NOP THEN dispatch_events(pop, ub)
          ELSE IF ~g.alive[p] THEN dispatch_events(stale(pop), ub)
          ELSE IF f.phase = "enter"
          THEN LET f1 == [f EXCEPT !.first_resume = first_resume(g, p),
                                   !.resume_count = resume_count(g, p),
                                   !.i = resume_count(g, p)]
               IN IF f1.i # 0 THEN dispatch_events(resume_waiter(g, rest, f1), ub)
                  ELSE dispatch_events(
                         [g EXCEPT !.rx.walk = Append(rest, [f1 EXCEPT !.phase = "callees",
                                                                       !.snap = g.callees[p]])],
                         ub)
          ELSE IF f.phase = "resumed"
          THEN IF f.i # 0 THEN dispatch_events(resume_waiter(g, rest, f), ub)
               ELSE LET ev == g.events[p]
                        lo == f.first_resume + 1
                        hi == f.first_resume + f.resume_count
                        g1 == IF hi > Len(ev) THEN stale(g)
                              ELSE [g EXCEPT !.events[p] = SubSeq(ev, 1, lo - 1)
                                                           \o SubSeq(ev, hi + 1, Len(ev))]
                    IN dispatch_events(
                         [g1 EXCEPT !.rx.walk = Append(rest, [f EXCEPT !.phase = "callees",
                                                                      !.snap = g.callees[p]])],
                         ub)
          ELSE LET cur == g.callees[p]
               IN IF cur # f.snap /\ ub = "stop" THEN dispatch_events(stale(pop), ub)
                  ELSE IF f.it > Len(cur)
                  THEN dispatch_events(IF cur # f.snap THEN stale(pop) ELSE pop, ub)
                  ELSE dispatch_events(
                         [(IF cur # f.snap THEN stale(g) ELSE g)
                            EXCEPT !.rx.walk = Append(rest, [f EXCEPT !.it = @ + 1, !.snap = cur])
                                               \o <<frame0(cur[f.it])>>],
                         ub)

\* ------------------------------------------------------------ the state machine
rx0 == [readfds |-> {}, writefds |-> {}, exceptfds |-> {}, nfds |-> 0, timeout |-> NoTimeout,
        reported |-> [readfds |-> {}, writefds |-> {}, exceptfds |-> {}],
        timedout |-> NoTimeout, walk |-> <<>>, walking |-> FALSE]
hist0 == [resumes |-> [l \in Leaves |-> 0], uaf |-> FALSE, entry |-> <<>>,
          stored |-> NoValue, cancelled |-> {}, syscalls |-> 0, expired |-> {},
          collected |-> {}, overflow |-> {}, leafless |-> FALSE, marked |-> {},
          kept |-> FALSE, order |-> TRUE]

Deadlines == {NoTimeout} \cup 1..MaxDeadline

\* ------------------------------------------------- file_descriptor read / write
Modes == {"eager", "lazy"}      \* eagerness
Bytes == {0, 1}
Filler == 9                     \* what the caller's buffer held before the read
\* errno values (Linux); a failed syscall is modelled by the result 0 - errno
EAGAIN == 11
EWOULDBLOCK == 11
EINPROGRESS == 115
ECONNRESET == 104
ECONNREFUSED == 111
NotReady == 0 - EAGAIN          \* -1 with errno EAGAIN: io::error::operation_not_ready

\* std::error_code(errno, std::system_category()) of a failed syscall
sys_error(rv) == [cat |-> "system", val |-> 0 - rv]

\* error_category_t::equivalent(ec, operation_not_ready)
equivalent(ec) ==
  /\ ec.cat \in {"system", "generic"}
  /\ ec.val \in {EAGAIN, EWOULDBLOCK, EINPROGRESS}

\* rv.error() != operation_not_ready, for a syscall that failed
other_error(rv) == rv < 0 /\ ~equivalent(sys_error(rv))

\* the coroutine ends with the error of the syscall
co_return_error(x, rv) == [x EXCEPT !.pc = "failed", !.error = 0 - rv]

\* one more syscall was made and returned rv
syscalled(x, rv) ==
  [x EXCEPT !.nsys = @ + 1, !.lasterr = IF rv < 0 THEN 0 - rv ELSE 0,
            !.rvs = Append(@, rv)]

\* io::poll was awaited and the reactor resumed the coroutine
polled(x) == [x EXCEPT !.npoll = @ + 1]

\* a transfer that has not been issued
xfer0 == [pc |-> "start", so_far |-> 0, buf |-> <<>>, early |-> 0, out |-> <<>>,
          bytes |-> <<>>, count |-> 0 - 1, nsys |-> 0, npoll |-> 0, lasterr |-> 0,
          error |-> 0, rvs |-> <<>>]
io0 == [op |-> "none", src |-> <<>>, size |-> 0, sent |-> 0, eof |-> FALSE, fault |-> 0,
        x |-> [m \in Modes |-> xfer0]]

\* a send that has not been issued
sd0 == [mode |-> "lazy", sizes |-> <<>>, pc |-> "none", bufs |-> <<>>, sent |-> 0,
        accepted |-> 0, inorder |-> TRUE, error |-> 0, nsys |-> 0, npoll |-> 0]

\* storage no variant_ptr lives in, and the two objects of the pointer programs
no_ptr == [made |-> FALSE, _storage |-> 0, alt |-> 0, ptr |-> 0]
vp0 == [a |-> no_ptr, b |-> no_ptr, aborted |-> FALSE,
        last |-> [op |-> "none", idx |-> 0, alt |-> 0, ptr |-> 0, result |-> 0,
                  fired |-> FALSE]]

\* the event fd context before the first subscribe, both threads idle
evq0 == [opened |-> FALSE, event_data_size |-> 0, queue |-> <<>>, lock |-> "free",
         lpc |-> "idle", cur |-> [n |-> 0, has_data |-> FALSE], rpc |-> "idle", arg |-> 0,
         n |-> 0, accepted |-> <<>>, dropped |-> {}, out |-> <<>>,
         rv |-> [ok |-> TRUE, size |-> 0, errno |-> "none"], fired |-> FALSE]

\* every sequence over S of length at most n
RECURSIVE SeqsUpTo(_, _)
SeqsUpTo(S, n) ==
  IF n = 0 THEN {<<>>}
  ELSE LET shorter == SeqsUpTo(S, n - 1)
       IN shorter \cup {Append(q, b) : q \in {t \in shorter : Len(t) = n - 1}, b \in S}

\* ::read on a non-blocking descriptor: what it can return for `want` bytes when
\* `avail` bytes are queued
os_read(avail, eof, want) ==
  IF want = 0 THEN {0}
  ELSE IF avail = 0 THEN (IF eof THEN {0} ELSE {NotReady})
  ELSE 1..Min(avail, want)

\* ::write on a non-blocking descriptor with `room` bytes of space
os_write(room, want) ==
  IF want = 0 THEN {0}
  ELSE IF room = 0 THEN {NotReady}
  ELSE 1..Min(room, want)

\* variant: every ::read stores at the front of the buffer
read_into_front(buf, off, data, from, n) ==
  [i \in 1..Len(buf) |-> IF i <= n THEN data[from + i] ELSE buf[i]]

\* ::read(fd, buf.subspan(off)): n bytes of the stream stored from offset off
read_into(buf, off, data, from, n) ==
  [i \in 1..Len(buf) |-> IF off < i /\ i <= off + n THEN data[from + i - off] ELSE buf[i]]

\* head of the loop of file_descriptor::read
read_loop(x) ==
  IF x.so_far < Len(x.buf) THEN [x EXCEPT !.pc = "poll"]
  ELSE [x EXCEPT !.pc = "done", !.bytes = x.buf, !.count = Len(x.buf)]

\* variant: the eager attempt is never made
read_start_never_eager(x, m, rv) == read_loop(x)

\* file_descriptor::read up to its first poll: the eager attempt
read_start(x, m, rv) ==
  IF m = "eager"
  THEN LET y == syscalled(x, rv)
       IN IF other_error(rv) THEN co_return_error(y, rv)
          ELSE IF rv >= 0
          THEN read_loop([y EXCEPT !.buf = read_into(@, 0, io.src, 0, rv), !.so_far = rv,
                                   !.early = rv])
          ELSE read_loop(y)
  ELSE read_loop(x)

\* file_descriptor::read after poll reported the descriptor readable
read_polled(x, rv) ==
  LET y == syscalled(polled(x), rv)
  IN IF rv < 0 THEN co_return_error(y, rv)
     ELSE IF rv = 0
     THEN [y EXCEPT !.pc = "done", !.bytes = SubSeq(x.buf, 1, x.so_far), !.count = x.so_far]
     ELSE read_loop([y EXCEPT !.buf = read_into(@, x.so_far, io.src, x.so_far, rv),
                              !.so_far = @ + rv])

\* head of the loop of file_descriptor::write
write_loop(x) ==
  IF x.buf # <<>> THEN [x EXCEPT !.pc = "poll"]
  ELSE [x EXCEPT !.pc = "done", !.bytes = x.out, !.count = Len(x.out)]

\* io::write_some: the accepted bytes leave the span
write_some(x, rv) ==
  [x EXCEPT !.out = @ \o SubSeq(x.buf, 1, rv), !.buf = SubSeq(@, rv + 1, Len(@)),
            !.so_far = @ + rv]

\* file_descriptor::write up to its first poll: the eager attempt
write_start(x, m, rv) ==
  IF m = "eager"
  THEN LET y == syscalled(x, rv)
       IN IF other_error(rv) THEN co_return_error(y, rv)
          ELSE IF rv >= 0 THEN write_loop([write_some(y, rv) EXCEPT !.early = rv])
          ELSE write_loop(y)
  ELSE write_loop(x)

\* file_descriptor::write after poll reported the descriptor writable
write_polled(x, rv) ==
  LET y == syscalled(polled(x), rv)
  IN IF rv < 0 THEN co_return_error(y, rv) ELSE write_loop(write_some(y, rv))

\* stream_socket::connect up to its poll: the non-blocking ::connect
connect_start(x, rv) ==
  LET y == syscalled(x, rv)
  IN IF rv >= 0 THEN [y EXCEPT !.pc = "done"]
     ELSE IF other_error(rv) THEN co_return_error(y, rv)
     ELSE [y EXCEPT !.pc = "poll"]

\* stream_socket::connect after poll reported the socket writable: rv is the
\* pending error read with getsockopt(SO_ERROR), or 0 - errno of getsockopt
connect_polled(x, rv) ==
  LET y == polled(x)
  IN IF rv < 0 THEN co_return_error(y, rv)
     ELSE IF rv > 0 THEN co_return_error(y, 0 - rv)
     ELSE [y EXCEPT !.pc = "done"]

\* ------------------------------------------------------------------ sbo_vector
Elems == {1, 2}                 \* the pointers stored
Poison == 0                     \* storage that holds no object
BufIds == {1, 2}                \* what the allocator can hand out
NoBuf == 0                      \* nullptr

free_buf == [live |-> FALSE, cells |-> <<>>]

\* a default-constructed sbo_vector and its reference sequence
sv0 == [small |-> [i \in 1..small_capacity |-> Poison],
        big |-> [start |-> NoBuf, finish |-> 0],
        storage_capacity_or_size |-> 1,
        heap |-> [b \in BufIds |-> free_buf],
        ref |-> <<>>, r |-> "ok", dead |-> FALSE, fired |-> {}, aborted |-> FALSE]

is_small(v) == v.storage_capacity_or_size % 2 = 1

capacity(v) == IF is_small(v) THEN small_capacity ELSE v.storage_capacity_or_size \div 2

size(v) == IF is_small(v) THEN v.storage_capacity_or_size \div 2 ELSE v.big.finish

\* the storage begin() points into
Cells(v) == IF is_small(v) THEN v.small ELSE v.heap[v.big.start].cells

WithCells(v, c) ==
  IF is_small(v) THEN [v EXCEPT !.small = c] ELSE [v EXCEPT !.heap[v.big.start].cells = c]

\* [begin(), end())
Contents(v) == SubSeq(Cells(v), 1, size(v))

\* sbo_vector::reserve; got is what the allocator returned
sbo_reserve(v, count, got) ==
  IF count <= capacity(v) THEN [v EXCEPT !.r = "ok"]
  ELSE IF got = NoBuf THEN [v EXCEPT !.r = "not_enough_memory"]
  ELSE LET old == Contents(v)
           moved == [i \in 1..count |-> IF i <= Len(old) THEN old[i] ELSE Poison]
           freed == IF is_small(v) THEN v.heap
                    ELSE [v.heap EXCEPT ![v.big.start] = free_buf]
       IN [v EXCEPT !.heap = [freed EXCEPT ![got] = [live |-> TRUE, cells |-> moved]],
                    !.small = [i \in 1..small_capacity |-> Poison],
                    !.big = [start |-> got, finish |-> Len(old)],
                    !.storage_capacity_or_size = count * 2,
                    !.r = "ok"]

\* the store of push_back once there is room
construct_at_end(v, el) ==
  IF is_small(v)
  THEN [v EXCEPT !.small[size(v) + 1] = el, !.storage_capacity_or_size = @ + 2, !.r = "ok"]
  ELSE [v EXCEPT !.heap[v.big.start].cells[v.big.finish + 1] = el,
                 !.big.finish = @ + 1, !.r = "ok"]

\* sbo_vector::push_back
sbo_push_back(v, el, got) ==
  IF size(v) = capacity(v)
  THEN LET w == sbo_reserve(v, capacity(v) * 2, got)
       IN IF w.r # "ok" THEN w ELSE construct_at_end(w, el)
  ELSE construct_at_end(v, el)

\* variant: the gap is filled with the last element
sbo_erase_swaps_last(v, first, last) ==
  LET n == size(v)
      c == Cells(v)
      new_last == first + (n - last)
      shifted == [i \in 1..Len(c) |->
                    IF i > new_last /\ i <= n THEN Poison
                    ELSE IF i > first /\ i <= new_last THEN c[n - (i - first) + 1]
                    ELSE c[i]]
      w == WithCells(v, shifted)
  IN IF is_small(v)
     THEN [w EXCEPT !.storage_capacity_or_size = new_last * 2 + 1]
     ELSE [w EXCEPT !.big.finish = new_last]

\* sbo_vector::erase(first, last), the iterators given as offsets from begin():
\* std::move of the tail onto the gap, then the vacated cells are destroyed
sbo_erase(v, first, last) ==
  LET n == size(v)
      c == Cells(v)
      new_last == first + (n - last)
      shifted == [i \in 1..Len(c) |->
                    IF i > new_last /\ i <= n THEN Poison
                    ELSE IF i > first /\ i <= new_last THEN c[i + (last - first)]
                    ELSE c[i]]
      w == WithCells(v, shifted)
  IN IF is_small(v)
     THEN [w EXCEPT !.storage_capacity_or_size = new_last * 2 + 1]
     ELSE [w EXCEPT !.big.finish = new_last]

\* std::remove(begin(), end(), el): c with the kept elements moved to the front
\* one by one; `out` cells are written, cell `i` is looked at next
RECURSIVE std_remove(_, _, _, _, _)
std_remove(c, n, el, out, i) ==
  IF i > n THEN [cells |-> c, new_end |-> out]
  ELSE IF c[i] = el THEN std_remove(c, n, el, out, i + 1)
  ELSE std_remove([c EXCEPT ![out + 1] = c[i]], n, el, out + 1, i + 1)

\* erase(v, el)
sbo_erase_value(v, el) ==
  LET rm == std_remove(Cells(v), size(v), el, 0, 1)
  IN sbo_erase(WithCells(v, rm.cells), rm.new_end, size(v))

\* sbo_vector::clear
sbo_clear(v) == sbo_erase(v, 0, size(v))

\* sbo_vector::destroy(alloc)
sbo_destroy(v) ==
  LET w == sbo_clear(v)
  IN IF ~is_small(w)
     THEN [w EXCEPT !.heap[w.big.start] = free_buf,
                    !.big = [start |-> NoBuf, finish |-> 0],
                    !.storage_capacity_or_size = 1]
     ELSE w

\* sbo_vector::~sbo_vector
sbo_dtor(v) ==
  LET w == IF is_small(v) THEN v ELSE [v EXCEPT !.fired = @ \cup {"sbo_vector:is_small"}]
  IN [sbo_clear(w) EXCEPT !.dead = TRUE]

\* -------------------------------------------------------------------- expected
Types == {"void", "int", "string"}      \* T of expected<T>
Inactive == "inactive"                  \* a union member that holds no object
broken_promise == 2                     \* error::broken_promise
ErrorCodes == 0..2
Categories == {"olifilo", "system"}

\* T{}
DefaultOf(T) == CASE T = "void" -> "empty" [] T = "int" -> "0" [] T = "string" -> ""

ValuesOf(T) == CASE T = "void" -> {"empty"} [] T = "int" -> {"0", "7"}
                 [] T = "string" -> {"", "x"}

trivially_destructible(T) == T # "string"

\* storage no expected object lives in
no_object == [_error |-> 0, _error_cat |-> Inactive, _value |-> Inactive, made |-> "none"]
ex0 == [T |-> "void", a |-> no_object, b |-> no_object,
        last |-> [op |-> "none", destroyed |-> 0, ub |-> FALSE]]

\* expected_storage(std::in_place_t, args...)
expected_storage_in_place(T, v, how) ==
  [_error |-> 0, _error_cat |-> Inactive, _value |-> v, made |-> how]

\* expected_storage(unexpect_t, code, category)
expected_storage_unexpect(T, code, cat) ==
  IF T # "void" /\ code = 0
  THEN [_error |-> 0, _error_cat |-> Inactive, _value |-> DefaultOf(T), made |-> "error"]
  ELSE [_error |-> code, _error_cat |-> cat, _value |-> Inactive, made |-> "error"]

\* expected(): delegates to expected(std::in_place)
expected_default(T) == expected_storage_in_place(T, DefaultOf(T), "default")

\* expected::has_value / operator bool
has_value(o) == o._error = 0

\* expected::error
error_of(o) ==
  IF has_value(o) THEN [cat |-> "system", val |-> 0]
  ELSE [cat |-> o._error_cat, val |-> o._error]

\* expected_storage::operator=(expected_storage&&); expected_storage<void> copies
\* its members
move_assign(T, to, from) ==
  IF T = "void"
  THEN [o |-> [from EXCEPT !.made = "assigned"], destroyed |-> 0, ub |-> FALSE]
  ELSE IF from._error # 0
  THEN [o |-> [_error |-> from._error, _error_cat |-> from._error_cat,
               _value |-> Inactive, made |-> "assigned"],
        destroyed |-> IF ~trivially_destructible(T) /\ to._error = 0 THEN 1 ELSE 0,
        ub |-> FALSE]
  ELSE [o |-> [_error |-> 0, _error_cat |-> Inactive, _value |-> from._value,
               made |-> "assigned"],
        destroyed |-> 0, ub |-> FALSE]

\* expected_storage::operator=(const expected_storage&)
copy_assign(T, to, from) ==
  IF T = "void"
  THEN [o |-> [from EXCEPT !.made = "assigned"], destroyed |-> 0, ub |-> FALSE]
  ELSE IF from._error # 0
  THEN [o |-> [_error |-> from._error, _error_cat |-> from._error_cat,
               _value |-> Inactive, made |-> "assigned"],
        destroyed |-> 0,
        ub |-> ~trivially_destructible(T) /\ to._error # 0]
  ELSE [o |-> [_error |-> 0, _error_cat |-> Inactive, _value |-> from._value,
               made |-> "assigned"],
        destroyed |-> 0, ub |-> FALSE]

\* ~expected_storage
storage_dtor(T, o) ==
  [o |-> no_object,
   destroyed |-> IF T # "void" /\ ~trivially_destructible(T) /\ o._error = 0 THEN 1 ELSE 0,
   ub |-> FALSE]

\* before main runs: no coroutine exists yet
InitProgram ==
  /\ now = 0
  /\ alive = [p \in Promises |-> FALSE]
  /\ pc = [p \in Promises |-> "dead"]
  /\ owner = [p \in Promises |-> Null]
  /\ caller = [p \in Promises |-> Null]
  /\ callees = [p \in Promises |-> <<>>]
  /\ events = [p \in Promises |-> <<>>]
  /\ waits_on_me = [p \in Promises |-> Null]
  /\ returned_value = [p \in Promises |-> NoValue]
  /\ left = [w \in AllWorkers |-> 0]
  /\ lalive = [l \in Leaves |-> FALSE]
  /\ wait_result = [l \in Leaves |-> "uninitialized"]
  /\ waiter = [l \in Leaves |-> Null]
  /\ ltimeout = [l \in Leaves |-> NoTimeout]
  /\ running = "main"
  /\ stack = <<>>
  /\ gpc = "start"
  /\ get_result = NoValue
  /\ rx = rx0
  /\ wx = wx0
  /\ fired = {}
  /\ aborted = FALSE
  /\ hist = hist0

Init ==
  /\ ndebug \in BOOLEAN
  /\ reactor = "cpp"
  /\ wfd = 3
  /\ kind \in Kinds
  /\ deadline \in IF kind \in {"wait_all", "wait_first"} THEN Deadlines ELSE {NoTimeout}
  /\ polls \in [AllWorkers -> 0..MaxPolls] /\ polls["w4"] = 0
  /\ wdeadline \in [AllWorkers -> Deadlines]
  /\ \A w \in AllWorkers \ {"w1"} : wdeadline[w] = NoTimeout
  /\ cancel \in IF kind = "await" THEN {FALSE} ELSE BOOLEAN
  /\ InitProgram /\ io = io0 /\ sv = sv0 /\ ex = ex0 /\ sd = sd0 /\ vp = vp0 /\ evq = evq0

\* the promise nodes a walk from p visits, and the leaves it finds there
Children(S) == S \cup {c \in Promises : \E q \in S : c \in Range(callees[q])}
RECURSIVE Closure(_)
Closure(S) == IF Children(S) = S THEN S ELSE Closure(Children(S))
Under(p) == Closure({p})
LeavesUnder(p) == UNION {Range(events[q]) : q \in Under(p)}

\* the process is ended from outside the program's control flow
Abort ==
  /\ aborted' = TRUE
  /\ UNCHANGED <<config, now, alive, pc, owner, caller, callees, events, waits_on_me,
                 returned_value, left, lalive, wait_result, waiter, ltimeout, running,
                 stack, gpc, get_result, rx, wx, io, sv, ex, sd, vp, evq,
                 fired, hist>>

\* the state after an operation; a failed assert() ends a debug build instead
Commit(g) ==
  /\ UNCHANGED <<config, io, sv, ex, sd, vp, evq>>
  /\ IF ~ndebug /\ g.fired # fired
     THEN /\ aborted' = TRUE
          /\ fired' = g.fired
          /\ UNCHANGED <<now, alive, pc, owner, caller, callees, events, waits_on_me,
                         returned_value, left, lalive, wait_result, waiter, ltimeout,
                         running, stack, gpc, get_result, rx, wx, hist>>
     ELSE /\ aborted' = aborted
          /\ fired' = g.fired
          /\ now' = g.now
          /\ alive' = g.alive
          /\ pc' = g.pc
          /\ owner' = g.owner
          /\ caller' = g.caller
          /\ callees' = g.callees
          /\ events' = g.events
          /\ waits_on_me' = g.waits_on_me
          /\ returned_value' = g.returned_value
          /\ left' = g.left
          /\ lalive' = g.lalive
          /\ wait_result' = g.wait_result
          /\ waiter' = g.waiter
          /\ ltimeout' = g.ltimeout
          /\ running' = g.running
          /\ stack' = g.stack
          /\ gpc' = g.gpc
          /\ get_result' = g.get_result
          /\ rx' = g.rx
          /\ wx' = g.wx
          /\ hist' = g.hist

\* the state record with the outcome of a reactor walk written back
Walked(g, s) ==
  [g EXCEPT !.wait_result = s.wr, !.waiter = s.wt, !.events = s.ev,
            !.fired = @ \cup s.fired, !.hist.uaf = @ \/ s.uaf]

Executing(p) == ~aborted /\ running = p /\ alive[p]
InMain(at) == ~aborted /\ running = "main" /\ gpc = at

\* main calls the root coroutine and keeps its future
MainStart ==
  /\ InMain("start")
  /\ Commit(NewFrame([G EXCEPT !.gpc = "has_future"], "root", "main", RootEntry))

\* main calls future::get()
MainGet ==
  /\ InMain("has_future")
  /\ Commit([G EXCEPT !.gpc = "get_loop"])

\* main lets the future go out of scope without having the result
MainDrop ==
  /\ ~aborted /\ running = "main" /\ gpc \in {"has_future", "failed"}
  /\ Commit(destroy([G EXCEPT !.gpc = "dropped"], "root"))

\* variant: the result is moved out, the frame is kept
GetReturn_keeps_frame ==
  /\ InMain("get_loop")
  /\ pc[wx.driven] = "done"
  /\ Commit([G EXCEPT !.gpc = "returned", !.get_result = returned_value[wx.driven]])

\* get(): the root is done, its result is moved out and the frame destroyed
GetReturn ==
  /\ InMain("get_loop")
  /\ pc[wx.driven] = "done"
  /\ Commit(destroy([G EXCEPT !.gpc = "returned",
                              !.get_result = returned_value[wx.driven]], wx.driven))

\* what a read through the null handle may come back with
Garbage == {NoValue, get_result, Err("future_already_retrieved")}

\* main calls get() again on the future whose first get() destroyed the frame:
\* assert(handle) is all that guards handle.promise() on the null handle, which
\* without the assertion ends the process or reads whatever is there
MainGetAgain ==
  /\ InMain("returned")
  /\ LET g == Check(G, alive["root"], "future::get:handle")
     IN \E crash \in BOOLEAN, r \in Garbage :
          IF crash THEN ndebug /\ r = NoValue /\ Abort
          ELSE Commit([g EXCEPT !.gpc = "again", !.get_result = r])

\* reactor pass, collect phase
Collect ==
  /\ InMain("get_loop")
  /\ pc[wx.driven] # "done"
  /\ LET x == extract_events(wx.driven, Walk0, now)
         g0 == Check(G, LeavesUnder(wx.driven) # {}, "get:nothing_pending")
         g == [Walked(g0, x.s) EXCEPT
                 !.hist.leafless = @ \/ LeavesUnder(wx.driven) = {},
                 !.hist.syscalls = 0,
                 !.hist.marked = {},
                 !.hist.collected = LeavesUnder(wx.driven),
                 !.hist.overflow = x.s.overflow,
                 !.hist.expired = {l \in Leaves : /\ x.s.wr[l] = "timed_out"
                                                  /\ wait_result[l] = "uninitialized"}]
     IN \E crash \in BOOLEAN :
          /\ crash => x.s.overflow # {}
          /\ IF crash THEN Abort
             ELSE Commit(IF ~x.r.ok
                         THEN [g EXCEPT !.gpc = "failed",
                                        !.get_result = Err("no_io_pending")]
                         ELSE [g EXCEPT !.rx = [rx0 EXCEPT !.readfds = x.s.readfds,
                                                           !.writefds = x.s.writefds,
                                                           !.exceptfds = x.s.exceptfds,
                                                           !.nfds = x.r.nfds,
                                                           !.timeout = x.s.timeout],
                                        !.gpc = IF x.r.nfds # 0 \/ x.s.timeout # NoTimeout
                                                THEN "select" ELSE "dispatch"])

\* the steady clock advances while get() runs
Tick ==
  /\ ~aborted /\ running = "main" /\ gpc \in {"get_loop", "select"}
  /\ now < MaxTime
  /\ Commit([G EXCEPT !.now = @ + 1])

\* the leaves a mark phase gave a result
Marked(s) == {l \in Leaves : s.wr[l] # wait_result[l]}

NoFds == [readfds |-> {}, writefds |-> {}, exceptfds |-> {}]

\* select() reports ready descriptors before the timeout; mark phase
SelectReady ==
  /\ InMain("select")
  /\ rx.timeout = NoTimeout \/ rx.timeout >= now
  /\ \E r \in SUBSET rx.readfds, w \in SUBSET rx.writefds :
       /\ r \cup w # {}
       /\ LET sel == [readfds |-> r, writefds |-> w, exceptfds |-> {}]
              m == mark_events(wx.driven, Walk0, NoTimeout, sel)
          IN Commit([Walked(G, m) EXCEPT !.gpc = "dispatch", !.hist.syscalls = @ + 1,
                                         !.rx.reported = sel,
                                         !.hist.marked = Marked(m)])

\* select() returns 0 once the aggregate deadline is reached; mark phase
SelectTimeout ==
  /\ InMain("select")
  /\ rx.timeout # NoTimeout /\ rx.timeout >= now
  /\ LET m == mark_events(wx.driven, Walk0, rx.timeout, NoFds)
     IN Commit([Walked(G, m) EXCEPT !.now = rx.timeout, !.gpc = "dispatch",
                                    !.rx.timedout = rx.timeout,
                                    !.hist.syscalls = @ + 1, !.hist.marked = Marked(m)])

\* the clock passed the aggregate deadline before select() read it: the
\* remaining time is negative, select() rejects it or returns at once
SelectNegative ==
  /\ InMain("select")
  /\ rx.timeout # NoTimeout /\ rx.timeout < now
  /\ \E rejected \in BOOLEAN :
       LET m == mark_events(wx.driven, Walk0, now, NoFds)
       IN Commit(IF rejected
                 THEN [G EXCEPT !.gpc = "failed", !.get_result = Err("invalid_argument"),
                                !.hist.syscalls = @ + 1]
                 ELSE [Walked(G, m) EXCEPT !.gpc = "dispatch", !.hist.syscalls = @ + 1,
                                           !.rx.timedout = now,
                                           !.hist.marked = Marked(m)])

\* dispatch phase: one ready handler is resumed, the walk restarts afterwards
Dispatch ==
  /\ InMain("dispatch")
  /\ LET x == pop_ready_completion_handler(wx.driven, Walk0)
         g == Walked(G, x.s)
     IN Commit(IF x.h = Null
               THEN [g EXCEPT !.gpc = "get_loop", !.hist.syscalls = 0, !.hist.expired = {},
                              !.hist.collected = {}, !.hist.overflow = {},
                              !.hist.marked = {},
                              !.hist.order = @ /\ FirstReadyLeaf(G) = Null]
               ELSE [g EXCEPT !.running = x.h, !.stack = <<"main">>,
                              !.hist.resumes[x.leaf] = @ + 1,
                              !.hist.order = @ /\ x.leaf = FirstReadyLeaf(G),
                              !.hist.collected = @ \ {x.leaf},
                              !.hist.uaf = @ \/ ~alive[x.h]])

\* dispatch phase of the header reactor: dispatch_events(polled) runs on from
\* where the last resume() returned; when it returns to operator() the pass
\* is over.  A walk that read freed or moved memory may also end the process.
DispatchHpp ==
  /\ reactor = "hpp"
  /\ InMain("dispatch")
  /\ \E ub \in {"stop", "go", "crash"} :
       LET g0 == IF rx.walking
                 THEN [G EXCEPT !.hist.kept = TRUE]
                 ELSE [G EXCEPT !.rx.walk = <<frame0(wx.driven)>>, !.rx.walking = TRUE]
           g == dispatch_events(g0, IF ub = "crash" THEN "stop" ELSE ub)
       IN IF ub = "crash"
          THEN /\ g.hist.uaf /\ ~hist.uaf
               /\ aborted' = TRUE
               /\ hist' = [hist EXCEPT !.uaf = TRUE, !.kept = g.hist.kept]
               /\ UNCHANGED <<config, now, alive, pc, owner, caller, callees, events,
                              waits_on_me, returned_value, left, lalive, wait_result,
                              waiter, ltimeout, running, stack, gpc, get_result, rx, wx,
                              io, sv, ex, sd, vp, evq, fired>>
          ELSE Commit(IF g.running = "main"
                      THEN [g EXCEPT !.gpc = "get_loop", !.rx.walking = FALSE,
                                     !.hist.syscalls = 0, !.hist.expired = {},
                                     !.hist.collected = {}, !.hist.overflow = {},
                                     !.hist.marked = {},
                                     !.hist.order = @ /\ FirstReadyLeaf(g) = Null]
                      ELSE g)

RunRoot == Executing("root") /\ Commit(Root(G))

RunWorker == \E w \in AllWorkers : Executing(w) /\ Commit(Worker(G, w))

RunIdle == Executing("cmb") /\ kind = "idle" /\ Commit(Idle(G))

RunWaitWrapper ==
  \E c \in {"cmb", "cmb2"} :
    /\ Executing(c)
    /\ kind \in {"wait_all", "wait_first", "when_all", "nested", "wait1", "wait0",
                 "first_await", "first_wait", "any_wait", "first_get"}
    /\ FirstCall = "when_any" => wx.round = 1
    /\ \E oom \in BOOLEAN :
         /\ oom => pc[c] = "h_start"
                   /\ MayFail(Len(InputsOf(c))
                              + IF TimeoutOf(Inner(c)) # NoTimeout THEN 1 ELSE 0)
         /\ Commit(wait_wrapper(G, c, oom))

RunWait ==
  \E me \in WaitIds :
    /\ Executing(me)
    /\ Commit(IF pc[me] = "c_start" THEN wait_start(G, me) ELSE wait_resume(G, me))

RunWhenAny ==
  /\ Executing("cmb") /\ FirstCall = "when_any" /\ wx.round = 0
  /\ \E oom \in BOOLEAN :
       /\ oom => pc["cmb"] = "a_start" /\ MayFail(Len(Workers))
       /\ Commit(IF pc["cmb"] = "a_start" THEN when_any_start(G, oom)
                 ELSE when_any_resume(G))

RunWhenAllTuple == Executing("wa") /\ Commit(when_all_tuple(G))

RunWhenAllRange ==
  /\ Executing("wa2")
  /\ \E oom \in BOOLEAN :
       /\ oom => pc["wa2"] = "t_start"
       /\ Commit(when_all_range(G, oom))

Next ==
  \/ MainStart \/ MainGet \/ MainDrop \/ GetReturn \/ Collect \/ Tick
  \/ SelectReady \/ SelectTimeout \/ SelectNegative \/ Dispatch
  \/ RunRoot \/ RunWorker \/ RunWaitWrapper \/ RunWait \/ RunWhenAny

Spec == Init /\ [][Next]_vars

\* ------------------------------------------------- inputs at the boundary
\* w1 polls a descriptor that select() can or cannot take, under either
\* revision of the collect phase, the others poll valid descriptors; or the
\* root awaits a coroutine that is suspended without any poll request
\* ---- the programs that await when_all, flat and nested as in main()
InitAll ==
  /\ ndebug \in BOOLEAN
  /\ reactor = "cpp"
  /\ wfd = 3
  /\ kind \in {"when_all", "nested"}
  /\ deadline = NoTimeout
  /\ polls \in [AllWorkers -> 0..MaxPolls]
  /\ kind = "when_all" => polls["w4"] = 0
  /\ wdeadline \in [AllWorkers -> Deadlines]
  /\ \A w \in AllWorkers \ {"w1"} : wdeadline[w] = NoTimeout
  /\ cancel = FALSE
  /\ InitProgram /\ io = io0 /\ sv = sv0 /\ ex = ex0 /\ sd = sd0 /\ vp = vp0 /\ evq = evq0

NextAll ==
  \/ MainStart \/ MainGet \/ MainDrop \/ GetReturn \/ Collect \/ Tick
  \/ SelectReady \/ SelectTimeout \/ SelectNegative \/ Dispatch
  \/ RunRoot \/ RunWorker \/ RunWaitWrapper \/ RunWait
  \/ RunWhenAllTuple \/ RunWhenAllRange

SpecAll == InitAll /\ [][NextAll]_vars

\* ---- the programs that await one future, directly or through wait
InitOne ==
  /\ ndebug \in BOOLEAN
  /\ reactor = "cpp"
  /\ wfd = 3
  /\ kind \in {"await1", "wait1", "wait0"}
  /\ deadline \in Deadlines
  /\ kind # "wait0" => deadline = NoTimeout
  /\ polls \in [AllWorkers -> 0..MaxPolls]
  /\ \A w \in AllWorkers \ {"w1"} : polls[w] = 0
  /\ wdeadline \in [AllWorkers -> Deadlines]
  /\ \A w \in AllWorkers \ {"w1"} : wdeadline[w] = NoTimeout
  /\ cancel = FALSE
  /\ InitProgram /\ io = io0 /\ sv = sv0 /\ ex = ex0 /\ sd = sd0 /\ vp = vp0 /\ evq = evq0

NextOne ==
  \/ MainStart \/ MainGet \/ MainDrop \/ GetReturn \/ Collect \/ Tick
  \/ SelectReady \/ SelectTimeout \/ SelectNegative \/ Dispatch
  \/ RunRoot \/ RunWorker \/ RunWaitWrapper \/ RunWait \/ MainGetAgain

SpecOne == InitOne /\ [][NextOne]_vars

\* ---- the programs that issue one read, or one write, in either mode
MaxBuf == 2
MaxStream == 3

\* the coroutine machinery stays as it is before main runs
Idling ==
  UNCHANGED <<config, now, alive, pc, owner, caller, callees, events, waits_on_me,
              returned_value, left, lalive, wait_result, waiter, ltimeout, running,
              stack, gpc, get_result, rx, wx, fired, aborted, hist>>

\* only the read / write programs run
IoOnly == Idling /\ UNCHANGED <<sv, ex, sd, vp, evq>>

InitIo ==
  /\ ndebug = TRUE /\ reactor = "cpp" /\ wfd = 3 /\ kind = "await"
  /\ deadline = NoTimeout /\ cancel = FALSE
  /\ polls = [w \in AllWorkers |-> 0]
  /\ wdeadline = [w \in AllWorkers |-> NoTimeout]
  /\ InitProgram /\ sv = sv0 /\ ex = ex0 /\ sd = sd0 /\ vp = vp0 /\ evq = evq0
  /\ \E op \in {"read", "write", "connect"}, src \in SeqsUpTo(Bytes, MaxStream),
        want \in 0..MaxBuf :
       /\ op = "write" => want = Len(src) /\ want <= MaxBuf
       /\ op = "connect" => want = 0 /\ src = <<>>
       /\ io = [io0 EXCEPT
                  !.op = op, !.src = src, !.size = want,
                  !.x = [m \in Modes |->
                           [xfer0 EXCEPT !.buf = IF op = "read"
                                                 THEN [i \in 1..want |-> Filler]
                                                 ELSE src]]]

\* the peer sends one more byte / the socket buffer gets room for one more
OsStep ==
  /\ io.op # "none" /\ io.sent < Len(io.src) /\ io.fault = 0
  /\ io' = [io EXCEPT !.sent = @ + 1]
  /\ IoOnly

\* the peer closes the stream after the last byte
Hangup ==
  /\ io.op = "read" /\ io.sent = Len(io.src) /\ ~io.eof /\ io.fault = 0
  /\ io' = [io EXCEPT !.eof = TRUE]
  /\ IoOnly

\* the peer resets the connection, or refuses the one being set up: from then
\* on every syscall on the descriptor fails with that error
Fault ==
  /\ io.op # "none" /\ io.fault = 0 /\ ~io.eof
  /\ io.op = "connect" => io.sent = 0
  /\ io' = [io EXCEPT !.fault = IF io.op = "connect" THEN ECONNREFUSED ELSE ECONNRESET]
  /\ IoOnly

\* the peer accepts the connection
Connected ==
  /\ io.op = "connect" /\ io.sent = 0 /\ io.fault = 0
  /\ io' = [io EXCEPT !.sent = 1]
  /\ IoOnly

\* what a syscall returns on the descriptor: its error state wins
os_result(normal) == IF io.fault # 0 THEN {0 - io.fault} ELSE normal

\* ::connect on a non-blocking socket: done at once, under way (EINPROGRESS, or
\* EAGAIN on a local socket), or refused at once
os_connect ==
  IF io.sent = 1 THEN {0}
  ELSE IF io.fault # 0 THEN {0 - io.fault}
  ELSE {0 - EINPROGRESS, 0 - EAGAIN}

ReadStart ==
  \E m \in Modes :
    /\ io.op = "read" /\ io.x[m].pc = "start"
    /\ \E rv \in os_result(os_read(io.sent, io.eof, io.size)) :
         io' = [io EXCEPT !.x[m] = read_start(@, m, rv)]
    /\ IoOnly

\* poll(fd, read) returns once bytes are queued, the peer has closed or the
\* descriptor is in error; select may also report a descriptor readable when
\* the read that follows finds nothing to take
ReadPolled ==
  \E m \in Modes :
    /\ io.op = "read" /\ io.x[m].pc = "poll"
    /\ \E rv \in os_result(os_read(io.sent - io.x[m].so_far, io.eof,
                                    io.size - io.x[m].so_far)) :
         io' = [io EXCEPT !.x[m] = read_polled(@, rv)]
    /\ IoOnly

WriteStart ==
  \E m \in Modes :
    /\ io.op = "write" /\ io.x[m].pc = "start"
    /\ \E rv \in os_result(os_write(io.sent, io.size)) :
         io' = [io EXCEPT !.x[m] = write_start(@, m, rv)]
    /\ IoOnly

\* poll(fd, write) returns once the socket buffer has room or the descriptor
\* is in error
WritePolled ==
  \E m \in Modes :
    /\ io.op = "write" /\ io.x[m].pc = "poll"
    /\ io.sent > io.x[m].so_far \/ io.fault # 0
    /\ \E rv \in os_result(os_write(io.sent - io.x[m].so_far, Len(io.x[m].buf))) :
         io' = [io EXCEPT !.x[m] = write_polled(@, rv)]
    /\ IoOnly

\* connect takes no eagerness: the coroutine is the one filed under "eager"
ConnectStart ==
  /\ io.op = "connect" /\ io.x["eager"].pc = "start"
  /\ \E rv \in os_connect :
       io' = [io EXCEPT !.x["eager"] = connect_start(@, rv)]
  /\ IoOnly

\* poll(fd, write) returns once the connection attempt has ended either way;
\* getsockopt(SO_ERROR) then reads the pending error
ConnectPolled ==
  /\ io.op = "connect" /\ io.x["eager"].pc = "poll"
  /\ io.sent = 1 \/ io.fault # 0
  /\ io' = [io EXCEPT !.x["eager"] = connect_polled(@, io.fault)]
  /\ IoOnly

NextIo ==
  \/ OsStep \/ Hangup \/ Fault \/ Connected
  \/ ReadStart \/ ReadPolled \/ WriteStart \/ WritePolled
  \/ ConnectStart \/ ConnectPolled

SpecIo == InitIo /\ [][NextIo]_vars

\* ---- the programs that use one sbo_vector
MaxVec == 5
MaxReserve == 3

\* only the vector's owner runs
VecOnly == Idling /\ UNCHANGED <<io, ex, sd, vp, evq>>

InitVec ==
  /\ ndebug \in BOOLEAN /\ reactor = "cpp" /\ wfd = 3 /\ kind = "await"
  /\ deadline = NoTimeout /\ cancel = FALSE
  /\ polls = [w \in AllWorkers |-> 0]
  /\ wdeadline = [w \in AllWorkers |-> NoTimeout]
  /\ InitProgram /\ io = io0 /\ sv = sv0 /\ ex = ex0 /\ sd = sd0 /\ vp = vp0 /\ evq = evq0

\* what allocate can return: a buffer not in use, or nothing
Allocate(v) == {NoBuf} \cup {b \in BufIds : ~v.heap[b].live}

\* the vector after an operation, next to the sequence it stands for; a failed
\* assert() ends a debug build instead
VecCommit(w, seq) ==
  /\ sv' = IF ~ndebug /\ w.fired # sv.fired
           THEN [sv EXCEPT !.fired = w.fired, !.aborted = TRUE]
           ELSE [w EXCEPT !.ref = seq]
  /\ VecOnly

Usable == ~sv.dead /\ ~sv.aborted

PushBack ==
  /\ Usable /\ size(sv) < MaxVec
  /\ \E el \in Elems, got \in Allocate(sv) :
       LET w == sbo_push_back(sv, el, got)
       IN VecCommit(w, IF w.r = "ok" THEN Append(sv.ref, el) ELSE sv.ref)

Reserve ==
  /\ Usable
  /\ \E count \in 1..MaxReserve, got \in Allocate(sv) :
       VecCommit(sbo_reserve(sv, count, got), sv.ref)

EraseValue ==
  /\ Usable
  /\ \E el \in Elems :
       VecCommit(sbo_erase_value(sv, el), SelectSeq(sv.ref, LAMBDA e : e # el))

EraseRange ==
  /\ Usable
  /\ \E first \in 0..size(sv) : \E last \in first..size(sv) :
       VecCommit(sbo_erase(sv, first, last),
                 SubSeq(sv.ref, 1, first) \o SubSeq(sv.ref, last + 1, Len(sv.ref)))

Clear ==
  /\ Usable
  /\ VecCommit(sbo_clear(sv), <<>>)

Destroy ==
  /\ Usable
  /\ VecCommit(sbo_destroy(sv), <<>>)

\* the owner of the vector goes away
Dtor ==
  /\ Usable
  /\ VecCommit(sbo_dtor(sv), <<>>)

NextVec == PushBack \/ Reserve \/ EraseValue \/ EraseRange \/ Clear \/ Destroy \/ Dtor

SpecVec == InitVec /\ [][NextVec]_vars

\* ---- the programs that construct, assign and destruct two expected<T>
ExpOnly == Idling /\ UNCHANGED <<io, sv, sd, vp, evq>>

InitExp ==
  /\ ndebug = TRUE /\ reactor = "cpp" /\ wfd = 3 /\ kind = "await"
  /\ deadline = NoTimeout /\ cancel = FALSE
  /\ polls = [w \in AllWorkers |-> 0]
  /\ wdeadline = [w \in AllWorkers |-> NoTimeout]
  /\ InitProgram /\ io = io0 /\ sv = sv0 /\ sd = sd0 /\ vp = vp0 /\ evq = evq0
  /\ \E T \in Types : ex = [ex0 EXCEPT !.T = T]

\* the objects after an operation on object x
ExpCommit(x, op, res) ==
  /\ ex' = [ex EXCEPT ![x] = res.o,
                      !.last = [op |-> op, destroyed |-> res.destroyed, ub |-> res.ub]]
  /\ ExpOnly

Plain(o) == [o |-> o, destroyed |-> 0, ub |-> FALSE]

DefaultConstruct ==
  \E x \in {"a", "b"} :
    /\ ex[x].made = "none"
    /\ ExpCommit(x, "default", Plain(expected_default(ex.T)))

ValueConstruct ==
  \E x \in {"a", "b"}, v \in ValuesOf(ex.T) :
    /\ ex[x].made = "none"
    /\ ExpCommit(x, "value", Plain(expected_storage_in_place(ex.T, v, "value")))

ErrorConstruct ==
  \E x \in {"a", "b"}, code \in ErrorCodes, cat \in Categories :
    /\ ex[x].made = "none"
    /\ ExpCommit(x, "error", Plain(expected_storage_unexpect(ex.T, code, cat)))

MoveAssign ==
  /\ ex.a.made # "none" /\ ex.b.made # "none"
  /\ ExpCommit("a", "move", move_assign(ex.T, ex.a, ex.b))

CopyAssign ==
  /\ ex.a.made # "none" /\ ex.b.made # "none"
  /\ ExpCommit("a", "copy", copy_assign(ex.T, ex.a, ex.b))

Destruct ==
  \E x \in {"a", "b"} :
    /\ ex[x].made # "none"
    /\ ExpCommit(x, "dtor", storage_dtor(ex.T, ex[x]))

NextExp ==
  \/ DefaultConstruct \/ ValueConstruct \/ ErrorConstruct
  \/ MoveAssign \/ CopyAssign \/ Destruct

SpecExp == InitExp /\ [][NextExp]_vars

\* ---- the programs that send a list of buffers over a socket
MaxBufs == 3          \* buffers handed to one send
MaxBufSize == 2       \* bytes in one buffer

RECURSIVE Sum(_)
Sum(q) == IF q = <<>> THEN 0 ELSE Head(q) + Sum(Tail(q))

\* bytes of the buffers send() has dropped from the front of its span
gone(x) == Sum(x.sizes) - Sum(x.bufs)

\* ::sendmsg / ::write on a non-blocking socket offered `want` bytes: a partial
\* count, would-block, or the error the connection is in
os_send(want) ==
  {NotReady, 0 - ECONNRESET} \cup (IF want = 0 THEN {0} ELSE 1..want)

\* what `*rv` of an errored expected<size_t> can read from the union that
\* holds the error category pointer: any count, up to one past the total
inactive_value(x) == 0..(Sum(x.sizes) + 1)

\* one syscall that offered the bytes from flat offset `from` returned rv
sent_from(x, from, rv) ==
  [x EXCEPT !.nsys = @ + 1,
            !.accepted = IF rv > 0 THEN @ + rv ELSE @,
            !.inorder = @ /\ from = x.accepted]

\* socket_descriptor::send: wholly completed buffers leave the span; with
\* nothing left the coroutine returns, else it awaits poll(fd, write)
RECURSIVE remove_completed(_)
remove_completed(x) ==
  IF x.sent >= Head(x.bufs)
  THEN LET y == [x EXCEPT !.sent = @ - Head(x.bufs), !.bufs = Tail(@)]
       IN IF y.bufs = <<>> THEN [y EXCEPT !.pc = "done"] ELSE remove_completed(y)
  ELSE [x EXCEPT !.pc = "poll"]

\* head of the loop of socket_descriptor::send
send_loop(x) == IF x.bufs = <<>> THEN [x EXCEPT !.pc = "done"] ELSE remove_completed(x)

\* socket_descriptor::send up to its first poll: the eager sendmsg.  On
\* would-block the code reads `*rv` of the errored result: operator* asserts,
\* and without assertions reads the inactive union member
send_start(x, rv, garbage) ==
  IF x.mode = "eager"
  THEN LET y == sent_from(x, 0, rv)
       IN IF other_error(rv) THEN [y EXCEPT !.pc = "failed", !.error = 0 - rv]
          ELSE IF rv >= 0 THEN send_loop([y EXCEPT !.sent = rv])
          ELSE IF ~ndebug THEN [y EXCEPT !.pc = "aborted"]
          ELSE send_loop([y EXCEPT !.sent = garbage])
  ELSE send_loop(x)

\* bytes the syscall after a poll offers: the rest of a partly sent front
\* buffer to ::write, else all buffers to ::sendmsg
offered(x) == IF x.sent # 0 THEN Head(x.bufs) - x.sent ELSE Sum(x.bufs)

\* socket_descriptor::send after poll reported the socket writable
send_polled(x, rv) ==
  LET y == [sent_from(x, gone(x) + x.sent, rv) EXCEPT !.npoll = @ + 1]
  IN IF rv < 0 THEN [y EXCEPT !.pc = "failed", !.error = 0 - rv]
     ELSE send_loop([y EXCEPT !.sent = @ + rv])

SendOnly == Idling /\ UNCHANGED <<io, sv, ex, vp, evq>>

InitSend ==
  /\ ndebug \in BOOLEAN /\ reactor = "cpp" /\ wfd = 3 /\ kind = "await"
  /\ deadline = NoTimeout /\ cancel = FALSE
  /\ polls = [w \in AllWorkers |-> 0]
  /\ wdeadline = [w \in AllWorkers |-> NoTimeout]
  /\ InitProgram /\ io = io0 /\ sv = sv0 /\ ex = ex0 /\ vp = vp0 /\ evq = evq0
  /\ \E m \in Modes, sizes \in SeqsUpTo(0..MaxBufSize, MaxBufs) :
       sd = [sd0 EXCEPT !.mode = m, !.sizes = sizes, !.bufs = sizes, !.pc = "start"]

SendStart ==
  /\ sd.pc = "start"
  /\ \E rv \in os_send(Sum(sd.bufs)), garbage \in inactive_value(sd) :
       sd' = send_start(sd, rv, garbage)
  /\ SendOnly

SendPolled ==
  /\ sd.pc = "poll"
  /\ \E rv \in os_send(offered(sd)) : sd' = send_polled(sd, rv)
  /\ SendOnly

NextSend == SendStart \/ SendPolled

SpecSend == InitSend /\ [][NextSend]_vars

\* ---- the programs that build, copy and query two variant_ptr<int, void* const, const float>
NAlts == 3            \* sizeof...(Ts) of test_ptr_t
MaxAddr == 3          \* objects a pointer can point to

\* std::bit_ceil: the smallest power of two that is not below n
RECURSIVE bit_ceil_from(_, _)
bit_ceil_from(n, k) == IF k >= n THEN k ELSE bit_ceil_from(n, 2 * k)
bit_ceil(n) == bit_ceil_from(n, 1)

\* variant_ptr::mask: the low bits of the pointer that carry the index
mask == bit_ceil(NAlts) - 1

Alternatives == 0..(NAlts - 1)
\* addresses of objects aligned to at least sizeof...(Ts), and the null pointer
Addresses == {k * (mask + 1) : k \in 0..MaxAddr}

\* x & ~mask and x & mask on uintptr_t
clear_tag(x) == x - (x % (mask + 1))
tag_of(x) == x % (mask + 1)

\* variant_ptr(T* ptr): (bit_cast<uintptr_t>(ptr) & ~mask) | (idx & mask)
variant_ptr(idx, ptr) == clear_tag(ptr) + tag_of(idx)

\* variant_ptr(): a null pointer of the first alternative
variant_ptr_default == 0

\* variant_ptr::index
index(v) == tag_of(v)

\* contains<T>(var)
contains(v, idx) == index(v) = idx

\* get<T>(var): asserts that the alternative is held, then masks the tag off
get(v, idx) == [fired |-> index(v) # idx, ptr |-> clear_tag(v)]

\* explicit operator bool, operator==(nullptr_t), operator==(const variant_ptr&)
operator_bool(v) == clear_tag(v) # 0
equals_nullptr(v) == ~operator_bool(v)
equals(v, w) == v = w

PtrOnly == Idling /\ UNCHANGED <<io, sv, ex, sd, evq>>

InitPtr ==
  /\ ndebug \in BOOLEAN /\ reactor = "cpp" /\ wfd = 3 /\ kind = "await"
  /\ deadline = NoTimeout /\ cancel = FALSE
  /\ polls = [w \in AllWorkers |-> 0]
  /\ wdeadline = [w \in AllWorkers |-> NoTimeout]
  /\ InitProgram /\ io = io0 /\ sv = sv0 /\ ex = ex0 /\ sd = sd0 /\ evq = evq0
  /\ vp = vp0

\* test_ptr_t x(&object) / x = &object / x = static_cast<T*>(nullptr)
PtrConstruct ==
  /\ ~vp.aborted
  /\ \E x \in {"a", "b"}, idx \in Alternatives, ptr \in Addresses :
       vp' = [vp EXCEPT ![x] = [made |-> TRUE, _storage |-> variant_ptr(idx, ptr),
                                alt |-> idx, ptr |-> ptr],
                        !.last.op = "construct"]
  /\ PtrOnly

\* test_ptr_t x
PtrDefault ==
  /\ ~vp.aborted
  /\ \E x \in {"a", "b"} :
       vp' = [vp EXCEPT ![x] = [made |-> TRUE, _storage |-> variant_ptr_default,
                                alt |-> 0, ptr |-> 0],
                        !.last.op = "default"]
  /\ PtrOnly

\* a = b
PtrAssign ==
  /\ ~vp.aborted /\ vp.a.made /\ vp.b.made
  /\ vp' = [vp EXCEPT !.a = vp.b, !.last.op = "assign"]
  /\ PtrOnly

\* get<T>(a) for the alternative idx; a failed assert ends a debug build
PtrGet ==
  /\ ~vp.aborted /\ vp.a.made
  /\ \E idx \in Alternatives :
       LET r == get(vp.a._storage, idx)
       IN vp' = [vp EXCEPT !.last = [op |-> "get", idx |-> idx, alt |-> vp.a.alt,
                                     ptr |-> vp.a.ptr, result |-> r.ptr,
                                     fired |-> r.fired /\ ~ndebug],
                           !.aborted = r.fired /\ ~ndebug]
  /\ PtrOnly

NextPtr == PtrConstruct \/ PtrDefault \/ PtrAssign \/ PtrGet

SpecPtr == InitPtr /\ [][NextPtr]_vars

\* ---- the event loop thread and the reader thread on one event fd
MaxEvents == 3        \* events the event loop delivers
MaxDataSize == 2      \* largest event_data_size a subscription asks for

\* the fixed part of an event record: esp_event_base_t, then the int32 id
Header == <<"base", "id">>

\* sizeof(esp_event_base_t) + sizeof(int32_t) + event_data_size, in cells
event_size(c) == Len(Header) + c.event_data_size

\* fd_context::receive, first part: the event base and id are appended
receive_header(c, ev) ==
  [c EXCEPT !.queue = @ \o [i \in 1..Len(Header) |-> [ev |-> ev, part |-> Header[i]]],
            !.fired = @ \/ Len(c.queue) % event_size(c) # 0]

\* variant: an event without data appends nothing after the header
receive_data_no_padding(c, ev, has_data) ==
  LET q == c.queue \o (IF has_data
                       THEN [i \in 1..c.event_data_size |-> [ev |-> ev, part |-> "data"]]
                       ELSE <<>>)
  IN [c EXCEPT !.queue = q, !.accepted = Append(@, ev),
               !.fired = @ \/ Len(q) % event_size(c) # 0 \/ q = <<>>]

\* fd_context::receive, second part: event_data_size bytes of the event's data
\* are appended, or as many zero bytes when the event has none
receive_data(c, ev, has_data) ==
  LET q == c.queue \o [i \in 1..c.event_data_size |->
                         [ev |-> ev, part |-> IF has_data THEN "data" ELSE "zero"]]
  IN [c EXCEPT !.queue = q, !.accepted = Append(@, ev),
               !.fired = @ \/ Len(q) % event_size(c) # 0 \/ q = <<>>]

failed(e) == [ok |-> FALSE, size |-> 0, errno |-> e]

\* the vfs read operation, with the context locked
vfs_read(c, size_) ==
  IF ~c.opened THEN [c EXCEPT !.rv = failed("EBADF")]
  ELSE IF c.queue = <<>> THEN [c EXCEPT !.rv = failed("EAGAIN")]
  ELSE IF size_ < event_size(c) THEN [c EXCEPT !.rv = failed("EMSGSIZE")]
  ELSE [c EXCEPT !.fired = @ \/ Len(c.queue) % event_size(c) # 0,
                 !.out = Append(@, SubSeq(c.queue, 1, Min(event_size(c), Len(c.queue)))),
                 !.queue = SubSeq(@, event_size(c) + 1, Len(@)),
                 !.rv = [ok |-> TRUE, size |-> event_size(c), errno |-> "none"]]

\* the vfs close operation, with the context locked
vfs_close(c) ==
  IF ~c.opened THEN [c EXCEPT !.rv = failed("EBADF")]
  ELSE [c EXCEPT !.opened = FALSE, !.queue = <<>>,
                 !.rv = [ok |-> TRUE, size |-> 0, errno |-> "none"]]

\* events::subscribe on the context, locked: an open context is skipped; the
\* registration of a handler or of the fd may fail
subscribe(c, event_data_size, registered) ==
  IF c.opened THEN [c EXCEPT !.rv = failed("EMFILE")]
  ELSE IF ~registered THEN [c EXCEPT !.rv = failed("ESP_FAIL")]
  ELSE [c EXCEPT !.event_data_size = event_data_size, !.opened = TRUE,
                 !.rv = [ok |-> TRUE, size |-> 0, errno |-> "none"]]

EvOnly == Idling /\ UNCHANGED <<io, sv, ex, sd, vp>>

InitEv ==
  /\ ndebug \in BOOLEAN /\ reactor = "cpp" /\ wfd = 3 /\ kind = "await"
  /\ deadline = NoTimeout /\ cancel = FALSE
  /\ polls = [w \in AllWorkers |-> 0]
  /\ wdeadline = [w \in AllWorkers |-> NoTimeout]
  /\ InitProgram /\ io = io0 /\ sv = sv0 /\ ex = ex0 /\ sd = sd0 /\ vp = vp0
  /\ evq = evq0

\* a failed assert() ends a debug build
EvCommit(c) ==
  /\ evq' = IF c.fired /\ ~ndebug THEN [evq EXCEPT !.fired = TRUE, !.lock = "dead"] ELSE c
  /\ EvOnly

\* the event loop calls fd_context::receive, which takes the context's lock
ReceiveEnter ==
  /\ evq.lpc = "idle" /\ evq.lock = "free" /\ evq.n < MaxEvents
  /\ \E has_data \in BOOLEAN :
       EvCommit([evq EXCEPT !.lock = "loop", !.lpc = "locked", !.n = @ + 1,
                            !.cur = [n |-> evq.n + 1, has_data |-> has_data]])

\* receive returns at once when the fd is not open, else appends the header
ReceiveHeader ==
  /\ evq.lpc = "locked" /\ evq.lock = "loop"
  /\ EvCommit(IF ~evq.opened
              THEN [evq EXCEPT !.lock = "free", !.lpc = "idle",
                               !.dropped = @ \cup {evq.cur.n}]
              ELSE [receive_header(evq, evq.cur.n) EXCEPT !.lpc = "data"])

\* receive appends the data and releases the lock
ReceiveData ==
  /\ evq.lpc = "data" /\ evq.lock = "loop"
  /\ EvCommit([receive_data(evq, evq.cur.n, evq.cur.has_data)
                 EXCEPT !.lock = "free", !.lpc = "idle"])

\* the reader thread calls read, close or subscribe, which take the lock
ReaderEnter ==
  /\ evq.rpc = "idle" /\ evq.lock = "free"
  /\ \E op \in {"read", "close", "subscribe"}, arg \in 0..(Len(Header) + MaxDataSize) :
       /\ op = "close" => arg = 0
       /\ op = "subscribe" => arg <= MaxDataSize
       /\ EvCommit([evq EXCEPT !.lock = "reader", !.rpc = op, !.arg = arg])

VfsRead ==
  /\ evq.rpc = "read" /\ evq.lock = "reader"
  /\ EvCommit([vfs_read(evq, evq.arg) EXCEPT !.lock = "free", !.rpc = "idle"])

VfsClose ==
  /\ evq.rpc = "close" /\ evq.lock = "reader"
  /\ EvCommit([vfs_close(evq) EXCEPT !.lock = "free", !.rpc = "idle"])

Subscribe ==
  /\ evq.rpc = "subscribe" /\ evq.lock = "reader"
  /\ \E registered \in BOOLEAN :
       EvCommit([subscribe(evq, evq.arg, registered) EXCEPT !.lock = "free", !.rpc = "idle"])

NextEv ==
  \/ ReceiveEnter \/ ReceiveHeader \/ ReceiveData
  \/ ReaderEnter \/ VfsRead \/ VfsClose \/ Subscribe

SpecEv == InitEv /\ [][NextEv]_vars

BadFds == {FD_SETSIZE, NoFd}

InitEdge ==
  /\ ndebug \in BOOLEAN
  /\ reactor \in {"cpp", "hpp"}
  /\ wfd \in {3} \cup BadFds
  /\ kind \in {"await", "wait_first", "idle"}
  /\ deadline = NoTimeout
  /\ polls \in [AllWorkers -> 0..MaxPolls] /\ polls["w4"] = 0
  /\ polls["w1"] > 0
  /\ wdeadline \in [AllWorkers -> Deadlines]
  /\ \A w \in AllWorkers \ {"w1"} : wdeadline[w] = NoTimeout
  /\ cancel = FALSE
  /\ InitProgram /\ io = io0 /\ sv = sv0 /\ ex = ex0 /\ sd = sd0 /\ vp = vp0 /\ evq = evq0

NextEdge ==
  \/ MainStart \/ MainGet \/ MainDrop \/ GetReturn \/ Collect \/ Tick
  \/ SelectReady \/ SelectTimeout \/ SelectNegative \/ Dispatch
  \/ RunRoot \/ RunWorker \/ RunWaitWrapper \/ RunWait \/ RunIdle

SpecEdge == InitEdge /\ [][NextEdge]_vars

\* ------------------------------------------------------------ properties
Linked(l) == {q \in Promises : l \in Range(events[q])}
Count(seq, x) == Cardinality({i \in 1..Len(seq) : seq[i] = x})
InPass == ~aborted /\ running = "main" /\ gpc \in {"get_loop", "select", "dispatch"}
Inputs == WorkerSet
InputDone(w) == pc[w] = "done"

\* C1: whenever get() has returned, it has returned the result that the root
\* coroutine stored when it completed, and nothing else.
C1_GetReturnsStoredResult ==
  gpc \in {"returned", "failed"} =>
    /\ gpc = "returned"
    /\ hist.stored # NoValue
    /\ get_result = hist.stored

\* C2: when a reactor pass returns, no leaf linked under the root has a result
\* that is set, and no leaf's waiter was resumed more than once for one await.
C2_MarkedLeavesDispatched ==
  /\ (~aborted /\ running = "main" /\ gpc \in {"get_loop", "failed"}) =>
       \A l \in LeavesUnder("root") : wait_result[l] = "uninitialized"
  /\ \A l \in Leaves : hist.resumes[l] <= 1

\* C3: every promise whose caller is a non-null node appears exactly once in
\* that node's child list.
C3_CallerHasChild ==
  \A p \in Promises :
    (alive[p] /\ caller[p] # Null) => Count(callees[caller[p]], p) = 1

C6_ChildListRestored ==
  /\ pc["wi"] = "done" => callees["wi"] = hist.entry
  /\ (kind = "when_any" /\ pc["cmb"] = "done") => callees["cmb"] = hist.entry

\* C7: after get() returned the root's result no promise node and no leaf of
\* the root's graph exists or is linked anywhere.
C7_NothingLeftAfterGet ==
  gpc = "returned" =>
    /\ \A p \in Promises : ~alive[p] /\ callees[p] = <<>> /\ events[p] = <<>>
    /\ \A l \in Leaves : ~lalive[l]

\* get() returned after the root had dropped or left behind unfinished workers
C7_Witness ==
  /\ gpc = "returned" /\ get_result.err = "none"
  /\ hist.cancelled \cap WorkerSet # {}

\* C8: wait returns success only when its completion condition holds: all
\* inputs done and index 0 in mode 'all'; in mode 'first' an index in range
\* that designates a done input.
C8_WaitCompletion ==
  (pc["wi"] = "done" /\ returned_value["wi"].err = "none") =>
    LET i == returned_value["wi"].idx IN
    /\ wx["wi"].mode = "all" => (i = 0 /\ \A w \in Inputs : InputDone(w))
    /\ wx["wi"].mode = "first" => (i \in 0..(Len(Workers) - 1) /\ InputDone(Workers[i + 1]))

\* wait returned after having been suspended: in mode 'first' on an input that
\* is not the first one while the first is still pending, and in mode 'all'
\* with inputs that all needed a poll
C8_Witness ==
  /\ pc["wi"] = "done" /\ returned_value["wi"].err = "none"
  /\ \/ wx["wi"].mode = "first" /\ returned_value["wi"].idx > 0 /\ pc["w1"] = "w_poll"
        /\ polls[Workers[returned_value["wi"].idx + 1]] > 0
     \/ wx["wi"].mode = "all" /\ \A w \in WorkerSet : polls[w] > 0

C11_ExpiredNoSyscall == hist.expired # {} => hist.syscalls = 0

\* C12: a poll request without deadline whose descriptor is outside the
\* domain of select() has the result "bad fd" once a collect phase has seen
\* it, and its descriptor is in none of the sets handed to select().
C12_BadFdRejected ==
  \A l \in hist.collected :
    (lalive[l] /\ ~FdInDomain(fd(l)) /\ ltimeout[l] = NoTimeout)
      => /\ wait_result[l] = "bad_file_descriptor"
         /\ fd(l) \notin rx.readfds \cup rx.writefds \cup rx.exceptfds

PassEnds == InMain("dispatch") /\ pop_ready_completion_handler("root", Walk0).h = Null
FourLeaves == {"l1", "l2", "l3", "l4"}
C14_OnePollCarriesAll ==
  /\ hist.syscalls <= 1
  /\ InMain("select") =>
       \A l \in LeavesUnder("root") :
         (lalive[l] /\ wait_result[l] = "uninitialized") =>
           /\ "read" \in poll_events(l) => fd(l) \in rx.readfds
           /\ "write" \in poll_events(l) => fd(l) \in rx.writefds
  /\ (kind = "nested" /\ PassEnds /\ FourLeaves \subseteq hist.marked
      /\ \A l \in FourLeaves : wait_result[l] = "ok") =>
       /\ \A l \in FourLeaves : hist.resumes[l] = 1
       /\ wx.rootv = OkAll(<<Ok(0), Ok(0), OkAll(<<Ok(0), Ok(0)>>)>>)
  /\ (kind = "nested" /\ gpc = "returned"
      /\ \A l \in FourLeaves : hist.resumes[l] = 1 /\ wait_result[l] = "ok") =>
       get_result = OkAll(<<Ok(0), Ok(0), OkAll(<<Ok(0), Ok(0)>>)>>)

C14_Witness ==
  /\ kind = "nested" /\ PassEnds /\ hist.syscalls = 1
  /\ hist.marked = FourLeaves /\ \A l \in FourLeaves : hist.resumes[l] = 1
  /\ Cardinality(rx.readfds \cup rx.writefds) = 4
  /\ pc["root"] = "r_polled"

\* the result a worker coroutine finishes with
ResultOf(w) == IF polls[w] = 0 \/ wait_result[LeafOf(w)] = "ok" THEN Ok(0)
               ELSE Err(wait_result[LeafOf(w)])

\* C15: a when_all that did not run out of memory completes with success, after
\* every input was awaited to its end and none was dropped, and holds at position
\* i the result of input i, whether that is a value or an error
C15_CollectsEveryResult ==
  \A a \in {"wa", "wa2"} :
    (pc[a] = "done" /\ returned_value[a].err # "not_enough_memory") =>
      LET F == FuturesOf(a)
          r == returned_value[a]
      IN /\ r.err = "none"
         /\ Len(r.vals) = Len(F)
         /\ \A i \in 1..Len(F) :
              /\ ~alive[F[i]] /\ F[i] \notin hist.cancelled
              /\ F[i] \in AllWorkers => r.vals[i] = ResultOf(F[i])
              /\ F[i] = "wa2" => \/ r.vals[i] = Err("not_enough_memory")
                                 \/ r.vals[i] = OkAll(<<ResultOf("w3"), ResultOf("w4")>>)

C15_Witness ==
  /\ pc["wa"] = "done" /\ returned_value["wa"].err = "none"
  /\ returned_value["wa"].vals[1] = Err("timed_out")
  /\ returned_value["wa"].vals[2] = Ok(0)
  /\ \A w \in WorkerSet : polls[w] > 0

DoneAtCall == {i \in 1..Len(Workers) : polls[Workers[i]] = 0}

\* C17: when_any over inputs of which one is done at the call never suspends;
\* unless it ran out of memory it returns the position of the first done input
\* and holds every input future in its result
C17_WhenAnyReadyInput ==
  (kind = "when_any" /\ DoneAtCall # {}) =>
    /\ pc["cmb"] # "a_wait"
    /\ (pc["cmb"] = "done" /\ returned_value["cmb"].err # "not_enough_memory") =>
         /\ returned_value["cmb"] = Ok((CHOOSE i \in DoneAtCall : \A j \in DoneAtCall : i <= j) - 1)
         /\ wx.index = returned_value["cmb"].idx
         /\ \A w \in WorkerSet : alive[w] /\ owner[w] = "rv"

C17_Witness ==
  /\ kind = "when_any" /\ pc["cmb"] = "done" /\ returned_value["cmb"] = Ok(0)
  /\ polls["w1"] = 0 /\ polls["w2"] > 0 /\ pc["w2"] = "w_poll"
  /\ owner["w1"] = "rv" /\ owner["w2"] = "rv" /\ gpc = "has_future" /\ fired = {}

\* C18: a second get() on a future returns the error "future already retrieved"
C18_SecondGetReports ==
  ("future::get:handle" \in fired \/ gpc = "again") =>
    /\ ~aborted
    /\ gpc = "again" /\ get_result = Err("future_already_retrieved")

\* C19: a when_all that ends with "not enough memory" has not destroyed any of
\* the input futures it was given
C19_OomKeepsInputs ==
  \A a \in {"wa", "wa2"} :
    (pc[a] = "done" /\ returned_value[a] = Err("not_enough_memory")) =>
      \A q \in Range(FuturesOf(a)) : q \notin hist.cancelled

\* C20: a read issued in eager mode and one issued in lazy mode on the same
\* stream, both completed, hold the same bytes and the same count; likewise the
\* bytes the OS accepted from an eager and from a lazy write of the same data
C20_EagerLazySameBytes ==
  (io.x["eager"].pc = "done" /\ io.x["lazy"].pc = "done") =>
    /\ io.x["eager"].bytes = io.x["lazy"].bytes
    /\ io.x["eager"].count = io.x["lazy"].count
    /\ io.x["eager"].bytes = SubSeq(io.src, 1, io.x["eager"].count)

C20_Witness ==
  /\ io.op = "read" /\ io.size = 2
  /\ io.x["eager"].pc = "done" /\ io.x["lazy"].pc = "done"
  /\ io.x["eager"].early = 1 /\ io.x["eager"].count = 2
  /\ io.x["eager"].bytes = <<0, 1>>

\* C21: an eager read or write awaits a poll only after a syscall that reported
\* would-block or moved less than the whole buffer; when its first syscall moves
\* the whole buffer it completes with no poll; when its first syscall reports
\* EAGAIN and the syscall after the poll moves the whole buffer it completes
\* after exactly one poll and exactly two syscalls
C21_EagerPollsOnlyWhenNeeded ==
  LET x == io.x["eager"]
  IN io.op \in {"read", "write"} =>
       /\ (x.pc = "poll" \/ x.npoll > 0) =>
            x.rvs # <<>> /\ (x.rvs[1] < 0 \/ x.rvs[1] < io.size)
       /\ (x.rvs # <<>> /\ x.rvs[1] = io.size) =>
            x.pc = "done" /\ x.npoll = 0 /\ x.nsys = 1 /\ x.count = io.size
       /\ (Len(x.rvs) >= 2 /\ x.rvs[1] = 0 - EAGAIN /\ x.rvs[2] = io.size) =>
            x.pc = "done" /\ x.npoll = 1 /\ x.nsys = 2 /\ x.count = io.size

C21_Witness ==
  /\ io.op = "read" /\ io.size = 2
  /\ io.x["eager"].rvs = <<0 - EAGAIN, 2>>
  /\ io.x["eager"].pc = "done" /\ io.x["eager"].npoll = 1
  /\ io.x["eager"].bytes = <<0, 1>>
\* the transfers of the operation under way
Transfers == IF io.op = "connect" THEN {"eager"} ELSE Modes

\* C22: a transfer whose latest syscall failed is awaiting a poll exactly when
\* the code is EAGAIN, EWOULDBLOCK or EINPROGRESS; with any other code it has
\* ended and its result is that code
C22_NotReadyIffRetried ==
  \A m \in Transfers :
    LET x == io.x[m]
    IN x.lasterr # 0 =>
         /\ x.lasterr \in {EAGAIN, EWOULDBLOCK, EINPROGRESS} <=> x.pc = "poll"
         /\ x.lasterr \notin {EAGAIN, EWOULDBLOCK, EINPROGRESS} =>
              x.pc = "failed" /\ x.error = x.lasterr

\* C23: the elements of the vector are those of the plain sequence that went
\* through the same push_back, erase and clear operations, in the same order,
\* in inline and in heap storage alike; a push_back that failed changed nothing
C23_SameAsSequence ==
  ~sv.aborted =>
    /\ Contents(sv) = sv.ref
    /\ size(sv) <= capacity(sv)
    /\ \A i \in 1..size(sv) : Contents(sv)[i] \in Elems

\* heap storage that is full, and the push_back that could not grow it
C23_Witness ==
  /\ ~is_small(sv) /\ capacity(sv) = 4
  /\ Contents(sv) = <<2, 1, 1, 2>> /\ sv.ref = <<2, 1, 1, 2>>
  /\ sv.r = "not_enough_memory"
\* C24: once the vector has been destructed no buffer it allocated is still
\* allocated
C24_DtorReleasesSpill ==
  sv.dead => \A b \in BufIds : ~sv.heap[b].live

\* C25: a default-constructed expected<T> holds success when T is void and the
\* error "broken promise" for every other T
C25_DefaultState ==
  \A x \in {"a", "b"} :
    ex[x].made = "default" =>
      IF ex.T = "void" THEN has_value(ex[x])
      ELSE error_of(ex[x]) = [cat |-> "olifilo", val |-> broken_promise]

\* the await graph holds no edge at all
NoEdges ==
  \A p \in Promises :
    /\ callees[p] = <<>> /\ events[p] = <<>>
    /\ caller[p] = Null /\ waits_on_me[p] = Null

\* C26: wait over an empty list of futures returns index 0 at once: no coroutine
\* suspends, no timer leaf is made, the reactor is not entered, no assertion
\* fires, and the await graph has no edge before, during and after the call
C26_EmptyWaitReturnsZero ==
  (kind = "wait0" /\ pc["root"] \in {"r_call", "r_await", "r_resume", "r_after"}) =>
    /\ NoEdges
    /\ \A l \in Leaves : ~lalive[l]
    /\ pc["wi"] # "c_wait" /\ ~wx["wi"].swapped
    /\ running # "main" /\ hist.syscalls = 0 /\ fired = {}
    /\ pc["root"] = "r_resume" => returned_value["cmb"] = Ok(0)
    /\ pc["root"] = "r_after" => wx.rootv = Ok(0)

C26_Witness ==
  /\ kind = "wait0" /\ deadline # NoTimeout
  /\ pc["root"] = "r_after" /\ wx.rootv = Ok(0) /\ ~alive["cmb"] /\ ~alive["wi"]

\* ------------------------------------------- the header reactor's dispatch
\* the build with the reactor of io_poll_context.hpp: requests without
\* deadlines on a valid descriptor
InitHpp ==
  /\ ndebug \in BOOLEAN
  /\ reactor = "hpp"
  /\ wfd = 3
  /\ kind \in {"await", "wait_all", "wait_first"}
  /\ deadline = NoTimeout
  /\ polls \in [AllWorkers -> 0..MaxPolls] /\ polls["w4"] = 0
  /\ wdeadline = [w \in AllWorkers |-> NoTimeout]
  /\ cancel \in IF kind = "await" THEN {FALSE} ELSE BOOLEAN
  /\ InitProgram /\ io = io0 /\ sv = sv0 /\ ex = ex0 /\ sd = sd0 /\ vp = vp0 /\ evq = evq0

NextHpp ==
  \/ MainStart \/ MainGet \/ MainDrop \/ GetReturn \/ Collect \/ Tick
  \/ SelectReady \/ DispatchHpp
  \/ RunRoot \/ RunWorker \/ RunWaitWrapper \/ RunWait

SpecHpp == InitHpp /\ [][NextHpp]_vars

\* C27: every waiter the dispatch phase resumes is the waiter of the first
\* ready leaf that a depth-first walk from the root meets when it visits each
\* node's leaves and children last-added first; the phase ends only when that
\* walk finds no ready leaf; and after a resume the phase never continues a
\* walk it began before that resume (no pointer or iterator taken before a
\* resume is used after it).
C27_DispatchRestartsFromRoot == hist.order /\ ~hist.kept

\* the select() call of a pass returns and the mark phase runs
MarkStep == gpc = "select" /\ gpc' = "dispatch"

\* select() reported the leaf's descriptor in a set the leaf asked for
Reported(l, sel) ==
  \/ "read" \in poll_events(l) /\ fd(l) \in sel.readfds
  \/ "write" \in poll_events(l) /\ fd(l) \in sel.writefds
  \/ "priority" \in poll_events(l) /\ fd(l) \in sel.exceptfds

InitAgain ==
  /\ ndebug \in BOOLEAN
  /\ reactor = "cpp"
  /\ wfd = 3
  /\ kind \in AwaitAgain \cup WaitAgain
  /\ deadline \in IF FirstCall = "wait_first" THEN Deadlines ELSE {NoTimeout}
  /\ polls \in [AllWorkers -> 0..MaxPolls] /\ polls["w4"] = 0
  /\ wdeadline = [w \in AllWorkers |-> NoTimeout]
  /\ cancel = FALSE
  /\ InitProgram /\ io = io0 /\ sv = sv0 /\ ex = ex0 /\ sd = sd0 /\ vp = vp0 /\ evq = evq0

NextAgain ==
  \/ MainStart \/ MainGet \/ MainDrop \/ GetReturn \/ Collect \/ Tick
  \/ SelectReady \/ SelectTimeout \/ SelectNegative \/ Dispatch
  \/ RunRoot \/ RunWorker \/ RunWaitWrapper \/ RunWait \/ RunWhenAny

SpecAgain == InitAgain /\ [][NextAgain]_vars

\* the assertions made where a future is linked under an awaiter
LinkAsserts == {"wait:link:waits_on_me", "wait:link:stealing",
                "when_any:waits_on_me", "when_any:stealing",
                "await_transform:caller", "future::await_suspend:waits_on_me"}

\* C29: wherever a combinator or an await links a future, the future's
\* promise has no caller and no final waiter: none of the linking assertions
\* ever fails, also not for futures that an earlier wait or when_any handed
\* back and that are awaited or waited on again.
C29_LinkedOnlyWhenFree == fired \cap LinkAsserts = {}

\* ------------------------------------------ futures handed back and driven
\* main calls get() on a future that the root coroutine returned to it
MainGetHandedBack ==
  /\ InMain("returned")
  /\ kind \in DriveAgain
  /\ \E w \in WorkerSet :
       /\ alive[w] /\ owner[w] = "main"
       /\ Commit([G EXCEPT !.gpc = "get_loop", !.wx.driven = w])

\* the root calls wait(first_completed) or when_any on its three workers and
\* returns the futures to main, which drives the ones still pending
InitDrive ==
  /\ ndebug \in BOOLEAN
  /\ reactor = "cpp"
  /\ wfd = 3
  /\ kind \in DriveAgain
  /\ deadline \in IF FirstCall = "wait_first" THEN Deadlines ELSE {NoTimeout}
  /\ polls \in [AllWorkers -> 0..MaxPolls] /\ polls["w4"] = 0
  /\ wdeadline = [w \in AllWorkers |-> NoTimeout]
  /\ cancel = FALSE
  /\ InitProgram /\ io = io0 /\ sv = sv0 /\ ex = ex0 /\ sd = sd0 /\ vp = vp0 /\ evq = evq0

NextDrive ==
  \/ MainStart \/ MainGet \/ MainDrop \/ GetReturn \/ MainGetHandedBack
  \/ Collect \/ Tick
  \/ SelectReady \/ SelectTimeout \/ SelectNegative \/ Dispatch
  \/ RunRoot \/ RunWorker \/ RunWaitWrapper \/ RunWait \/ RunWhenAny

SpecDrive == InitDrive /\ [][NextDrive]_vars

\* the leaves a reactor pass on the driven future reaches
Reachable == LeavesUnder(wx.driven)

\* C30: when a reactor pass starts, every leaf reachable from the driven
\* future has the result 'uninitialized', so the collect phase's assertion
\* "event with pending result should have been dispatched" never fails; this
\* includes futures that a first-completed wait, a when_any or a timeout
\* detached while one of their leaves was already marked ready and that are
\* waited on or driven again afterwards.
C30_PassStartsClean ==
  /\ "extract_events:pending_result" \notin fired
  /\ (InMain("get_loop") /\ pc[wx.driven] # "done") =>
        \A l \in Reachable : wait_result[l] = "uninitialized"

\* C31: no collect phase sets a bit for a descriptor outside [0, FD_SETSIZE):
\* every descriptor in the read, write and except sets handed to select() is
\* in the domain of an fd_set, and no FD_SET wrote outside the set, whether
\* or not the leaf has a deadline.
C31_OnlyFdsInDomain ==
  /\ hist.overflow = {}
  /\ \A f \in rx.readfds \cup rx.writefds \cup rx.exceptfds : FdInDomain(f)

\* select(nfds, ..., time_point): the remaining time handed to ::select() is
\* the aggregate deadline minus the clock as select() reads it
time_left == rx.timeout - now

\* a step in which get() makes the select() syscall
SelectStep == InMain("select") /\ hist'.syscalls = hist.syscalls + 1

\* C32: the duration handed to the select syscall is never negative: in every
\* step that makes the syscall with an aggregate deadline, the remaining time
\* computed from that deadline and the clock read by select() is >= 0, also
\* when the clock passed the deadline after the collect phase read it.
C32_SelectDurationNonNegative ==
  [][(SelectStep /\ rx.timeout # NoTimeout) => time_left >= 0]_vars

\* the leaves the collect phase left pending, and the deadlines they carry
StillPending == {l \in LeavesUnder(wx.driven) : wait_result[l] = "uninitialized"}
PendingDeadlines == {ltimeout[l] : l \in {p \in StillPending : ltimeout[p] # NoTimeout}}

\* C33: the deadline handed to select() in a pass is the minimum of the
\* deadlines of all leaves still pending after the collect phase, and is absent
\* exactly when no pending leaf has a deadline; a pure-timer leaf contributes
\* its deadline but no fd: every fd in the sets is the fd of a collected leaf
\* that has one.
C33_AggregateDeadlineIsMinimum ==
  InMain("select") =>
    /\ rx.timeout = NoTimeout <=> PendingDeadlines = {}
    /\ rx.timeout # NoTimeout =>
         /\ rx.timeout \in PendingDeadlines
         /\ \A d \in PendingDeadlines : rx.timeout <= d
    /\ rx.readfds \cup rx.writefds \cup rx.exceptfds
         \subseteq {fd(l) : l \in {p \in LeavesUnder(wx.driven) : fd(p) # NoFd}}

\* a pass with two pending deadlines, the smaller one on a pure-timer leaf
C33_Witness ==
  /\ InMain("select")
  /\ Cardinality(PendingDeadlines) = 2
  /\ \E l \in StillPending : fd(l) = NoFd /\ ltimeout[l] = rx.timeout
  /\ \E l \in StillPending : fd(l) # NoFd /\ ltimeout[l] = NoTimeout

\* promise p reaches its final suspend point in this step
FinalSuspend(p) == ~aborted' /\ pc[p] # "done" /\ pc'[p] = "done"

\* C34: when a coroutine reaches final suspension with a final waiter
\* installed, control goes straight to that waiter (it runs next, the resumer's
\* stack is untouched, so the reactor has not regained control) and the waiter
\* slot is cleared; with no waiter installed control returns to whoever
\* resumed or called the coroutine.
C34_FinalSuspendTransfers ==
  [][\A p \in Promises :
       FinalSuspend(p) =>
         IF waits_on_me[p] # Null
         THEN running' = waits_on_me[p] /\ waits_on_me'[p] = Null /\ stack' = stack
         ELSE running' = Head(stack) /\ stack' = Tail(stack)]_vars

\* inside a dispatch pass a finished coroutine has just handed control to the
\* coroutine that awaited it
C34_Witness ==
  /\ ~aborted /\ gpc = "dispatch" /\ running \in Promises
  /\ \E p \in Promises : /\ alive[p] /\ pc[p] = "done" /\ caller[p] = running
                         /\ waits_on_me[p] = Null

\* the transfer made a syscall after a poll wake-up and that syscall was its last
AfterPoll(x) == x.npoll > 0 /\ x.rvs # <<>>

\* C35: in the poll loop of read and write a syscall that reports would-block
\* after a poll wake-up does not end the operation: the transfer is polling
\* again; a transfer that ended after a poll ended on a full transfer, on
\* end-of-file (a syscall result of 0) or on an error other than would-block.
C35_WouldBlockAfterPollRetries ==
  io.op \in {"read", "write"} =>
    \A m \in Modes :
      LET x == io.x[m]
          last == x.rvs[Len(x.rvs)]
      IN AfterPoll(x) =>
           /\ equivalent(sys_error(last)) /\ last < 0 => x.pc = "poll"
           /\ x.pc = "failed" => ~equivalent([cat |-> "system", val |-> x.error])
           /\ x.pc = "done" => x.so_far = io.size \/ (io.op = "read" /\ last = 0)

\* object a was assigned from object b in this step
Assigned == ex' # ex /\ ex'.last.op \in {"copy", "move"}

\* what an expected holds: its value, or its error code and category
Held(o) == [_error |-> o._error, _error_cat |-> o._error_cat, _value |-> o._value]

\* C38: copy-assignment and move-assignment of an expected<T> have the same
\* effect on the target: the outcome of either is the outcome the other would
\* have had; an error source assigned over a held value of a type with a
\* destructor destroys that value exactly once, assigned over an error it
\* destroys nothing, and the target afterwards holds what the source held.
C38_CopyAssignLikeMoveAssign ==
  [][Assigned =>
       /\ copy_assign(ex.T, ex.a, ex.b) = move_assign(ex.T, ex.a, ex.b)
       /\ ~ex'.last.ub
       /\ (ex.b._error # 0 /\ ex.a._error = 0 /\ ~trivially_destructible(ex.T))
            => ex'.last.destroyed = 1
       /\ (ex.b._error # 0 /\ ex.a._error # 0) => ex'.last.destroyed = 0
       /\ Held(ex'.a) = Held(ex.b)]_vars

\* the assertions of wait_t::operator() from its suspend loop to its co_return
WaitLoopAsserts == {"wait:events_empty", "wait:first_completed", "wait:timer_unlinked",
                    "wait:scan:caller", "wait:scan:waits_on_me",
                    "wait:mark_ready:caller", "wait:mark_ready:waits_on_me",
                    "wait:stop_waiting:index", "wait:stop_waiting:all"}

\* C37: every assertion in wait's suspend loop holds on every iteration, in
\* both modes and with or without a deadline: none of them is ever recorded as
\* failed; in particular the event list is empty whenever wait is about to
\* suspend and a successful 'all' wait ends with first-ready index 0.
C37_WaitLoopAssertsHold == fired \cap WaitLoopAsserts = {}

\* C36: send returns success only when the bytes the OS accepted over all
\* sendmsg and write calls add up to the total size of the buffers, whatever
\* partial counts and would-block results the syscalls return, eager or lazy;
\* and every syscall offers the bytes from the first unsent byte on.
C36_SendSendsEverything ==
  /\ sd.inorder
  /\ sd.pc = "done" => sd.accepted = Sum(sd.sizes)

\* the variant_ptr objects that exist
Built == {x \in {"a", "b"} : vp[x].made}

\* C39: a variant_ptr built from a pointer of alternative i round-trips:
\* index() is i, contains and get for alternative i give the pointer back, and
\* get for any other alternative gives nothing (a null pointer, and no
\* assertion fails); a default-constructed one has index 0 and is null; null
\* pointers of two different alternatives are each equal to nullptr but not
\* equal to each other.
C39_VariantPtrRoundTrip ==
  /\ \A x \in Built :
       LET v == vp[x]._storage
       IN /\ index(v) = vp[x].alt
          /\ contains(v, vp[x].alt)
          /\ get(v, vp[x].alt) = [fired |-> FALSE, ptr |-> vp[x].ptr]
          /\ equals_nullptr(v) <=> vp[x].ptr = 0
  /\ vp.last.op = "default" => \E x \in Built : index(vp[x]._storage) = 0
                                                 /\ equals_nullptr(vp[x]._storage)
  /\ vp.last.op = "get" =>
       /\ ~vp.last.fired /\ ~vp.aborted
       /\ vp.last.result = IF vp.last.idx = vp.last.alt THEN vp.last.ptr ELSE 0
  /\ (Built = {"a", "b"} /\ vp.a.ptr = 0 /\ vp.b.ptr = 0 /\ vp.a.alt # vp.b.alt) =>
       /\ equals_nullptr(vp.a._storage) /\ equals_nullptr(vp.b._storage)
       /\ ~equals(vp.a._storage, vp.b._storage)

\* r is one whole record of one event, with k cells of data
WholeRecord(r, k) ==
  /\ Len(r) = Len(Header) + k
  /\ \A i \in 1..Len(r) : r[i].ev = r[1].ev
  /\ \A i \in 1..Len(Header) : r[i].part = Header[i]
  /\ \A i \in (Len(Header) + 1)..Len(r) : r[i].part \in {"data", "zero"}

\* the k-th record of the queue
QueuedRecord(k) ==
  SubSeq(evq.queue, (k - 1) * event_size(evq) + 1, k * event_size(evq))

\* the events of the records read so far, and of the records still queued
EventsOut == [i \in 1..Len(evq.out) |-> evq.out[i][1].ev]
EventsQueued ==
  [k \in 1..(Len(evq.queue) \div event_size(evq)) |-> QueuedRecord(k)[1].ev]

\* C40: under every interleaving of the event loop thread (receive) with the
\* reader thread (read, close, subscribe), whenever no thread holds the lock
\* the byte queue is a sequence of whole event records; every read returned
\* exactly one whole record, the records come out in the order the events were
\* received, and an event that arrived while the fd was not open is neither
\* queued nor read; no assertion of receive or read fails.
C40_QueueHoldsWholeRecords ==
  /\ ~evq.fired
  /\ evq.lock = "free" =>
       /\ Len(evq.queue) % event_size(evq) = 0
       /\ \A k \in 1..Len(EventsQueued) :
            WholeRecord(QueuedRecord(k), evq.event_data_size)
       /\ ~evq.opened => evq.queue = <<>>
  /\ \A i \in 1..Len(evq.out) : \E k \in 0..MaxDataSize : WholeRecord(evq.out[i], k)
  /\ evq.rv.ok /\ evq.rv.size # 0 => evq.rv.size = Len(evq.out[Len(evq.out)])
  /\ LET seen == EventsOut \o (IF evq.lock = "free" THEN EventsQueued ELSE <<>>)
     IN /\ \A i, j \in 1..Len(seen) : i < j => seen[i] < seen[j]
        /\ \A i \in 1..Len(seen) :
             /\ \E j \in 1..Len(evq.accepted) : evq.accepted[j] = seen[i]
             /\ seen[i] \notin evq.dropped

\* two events were queued while the fd was open, one of them without data;
\* both were read, in order, after an earlier event had been dropped
C40_Witness ==
  /\ Len(evq.out) = 2 /\ evq.dropped # {} /\ evq.event_data_size > 0
  /\ \E i \in 1..2 : evq.out[i][Len(evq.out[i])].part = "zero"
  /\ evq.lock = "free"

====
